---- MODULE Spec2Model ----
(***************************************************************************)
(* Dependency graph engine of vectorscope: the entity store (DataStore),   *)
(* the transform engine with its downstream propagation, and the           *)
(* projection engine with its lazy cache.                                  *)
(*                                                                         *)
(* UUIDs are modelled by counters (uuid4 never repeats a value): layer     *)
(* ids by next_uuid, projection ids by next_projection; a transformation's *)
(* id is its position in the insertion-ordered dict _transformations.      *)
(* Python dicts are functions, str names are sequences of tokens (so that  *)
(* f"{a}_{b}" is concatenation and "" is <<>>), Optional arguments are     *)
(* sets with at most one element ({} is None).                             *)
(***************************************************************************)
EXTENDS Integers, Sequences, FiniteSets, TLC

VARIABLES
    layers,              \* DataStore._layers: layer id -> Layer
    points,              \* DataStore._points: layer id -> (point id -> Point)
    transformations,     \* TransformEngine._transformations, in insertion order
    projections,         \* ProjectionEngine._projections: id -> Projection
    projection_results,  \* ProjectionEngine._projection_results: id -> coordinates
    computed_with,       \* history: layer reference and parameters a cache entry was computed from
    next_uuid,           \* next fresh layer id
    next_projection,     \* next fresh projection id
    last,                \* history: the call that produced this state and its outcome
    readers,             \* threads inside get_projection_coordinates: position and locals
    writer,              \* the thread inside update_transformation: position and locals
    saved,               \* the scenario file written by save_current, None before
    listed,              \* the layers whose entry in store._points is a list
    random               \* NumPy's global generator: how many values were drawn from it

vars == <<layers, points, transformations, projections, projection_results,
          computed_with, next_uuid, next_projection, last, readers, writer,
          saved, listed, random>>

-----------------------------------------------------------------------------
(* Bounds of the model *)

\* Spec: the transformation graph
MaxLayers == 5
MaxTransformations == 2

\* SpecView: the graph with projections on its layers
ViewLayers == 4
ViewTransformations == 2
ViewProjections == 1

\* SpecCache: the life cycle of a projection's cache entry
CacheLayers == 3
CacheProjections == 1

\* SpecRename: renamed transformations under projections
RenameLayers == 3
RenameProjections == 1

\* SpecLazy: projections of layers without points and of unknown types
LazyLayers == 2
LazyPoints == 1
LazyProjections == 2

\* SpecDelete: calls on the ids of deleted projections
DeleteLayers == 3
DeleteProjections == 1

\* SpecStored: cache entries written from outside, on any projection id
StoredProjections == 2

\* SpecStale: points added to a layer after its projection was computed
StalePoints == 4
StaleProjections == 2

\* SpecShape: projections of every type, asked for in 1, 2 and 3 dimensions
ShapeProjections == 2

\* SpecRandom: projections recomputed after their cache entry was dropped
RandomProjections == 2
RandomDraws == 6

\* SpecWidth: points whose vectors are shorter or longer than the layer is wide
WidthLayers == 2
WidthPoints == 3

RaceLayers == 3
RaceTransformations == 1
RaceProjections == 1

FailingLayers == 4
FailingTransformations == 2

\* SpecBulk: points written one at a time and in batches
BulkLayers == 2
BulkPoints == 4

\* SpecAbsent: transformations asked of layers that are missing or empty
AbsentLayers == 4
AbsentTransformations == 3

\* SpecScaling: scaling transformations of layers of one dimension and more
ScalingDims == 2
ScalingLayers == 4

\* SpecReaders: threads that read projections at the same time
Readers == 2
ReaderLayers == 2
ReaderProjections == 1

\* SpecWriter: an update_transformation call taken statement by statement
WriterLayers == 5
WriterTransformations == 2
WriterProjections == 1

\* SpecPropagate: update_transformation calls that run to their end
PropagateLayers == 5
PropagateTransformations == 2

\* SpecRebind: projections rebound by the propagation, call by call
RebindLayers == 5
RebindTransformations == 2
RebindProjections == 2

\* SpecBranch: propagation into transformations that cannot be reapplied
BranchLayers == 5
BranchTransformations == 3

\* transformations of the types affine and linear
AffineLayers == 4
AffineTransformations == 3

\* graphs that are saved and loaded
ScenarioLayers == 3
ScenarioTransformations == 2
ScenarioProjections == 1

\* direct projections of a layer of up to DirectDims columns
DirectDims == 2
DirectProjections == 1

\* the custom axes of both engines on one layer of data
AxesTransformations == 1
AxesProjections == 1

\* SpecStore: points written one at a time under layers that get transformed
StoreLayers == 3
StorePoints == 3

-----------------------------------------------------------------------------
(* Python helpers *)

None == {}
Some(x) == {x}
Val(opt) == CHOOSE x \in opt : TRUE

EmptyDict == <<>>

\* dict.get(key, default)
Get(d, key, default) == IF key \in DOMAIN d THEN d[key] ELSE default

Min(a, b) == IF a <= b THEN a ELSE b
Max(a, b) == IF a >= b THEN a ELSE b

\* dict without one key
Without(f, k) == [x \in (DOMAIN f) \ {k} |-> f[x]]

\* the keys of a dict as a list (ascending; the model's results are keyed by
\* id, so the iteration order of distinct keys does not show)
RECURSIVE KeyList(_)
KeyList(S) ==
    IF S = {} THEN <<>>
    ELSE LET m == CHOOSE x \in S : \A y \in S : x <= y
         IN <<m>> \o KeyList(S \ {m})

-----------------------------------------------------------------------------
(* Entity store *)

\* the engines' view of the whole program state, threaded through the calls
State ==
    [layers |-> layers, points |-> points, transformations |-> transformations,
     projections |-> projections, projection_results |-> projection_results,
     computed_with |-> computed_with, next_uuid |-> next_uuid,
     random |-> random, applied |-> <<>>, raised |-> FALSE]

\* a slip of line 25: the id drawn for a layer is one drawn before
create_layer_reusing(st, name, dimensionality, source_transformation_id) ==
    [st EXCEPT
        !.layers = st.layers @@ (st.next_uuid :>
            [name |-> name,
             dimensionality |-> dimensionality,
             point_count |-> 0,
             source_transformation_id |-> source_transformation_id,
             is_derived |-> source_transformation_id # None]),
        !.points = st.points @@ (st.next_uuid :> EmptyDict)]

\* DataStore.create_layer; the new layer's id is st.next_uuid
create_layer(st, name, dimensionality, source_transformation_id) ==
    [st EXCEPT
        !.layers = st.layers @@ (st.next_uuid :>
            [name |-> name,
             dimensionality |-> dimensionality,
             point_count |-> 0,
             source_transformation_id |-> source_transformation_id,
             is_derived |-> source_transformation_id # None]),
        !.points = st.points @@ (st.next_uuid :> EmptyDict),
        !.next_uuid = st.next_uuid + 1]

\* DataStore.get_points(layer_id), no id filter
get_points(st, layer_id) ==
    IF layer_id \notin DOMAIN st.points THEN EmptyDict ELSE st.points[layer_id]

\* DataStore.get_vectors_as_array: the matrix as point id -> row
get_vectors_as_array(st, layer_id) ==
    LET pts == get_points(st, layer_id)
    IN [p \in DOMAIN pts |-> pts[p].vector]

Point(point_data) ==
    [vector |-> point_data.vector, label |-> point_data.label,
     metadata |-> point_data.metadata, is_virtual |-> point_data.is_virtual]

\* the dict assignment self._points[layer_id][point.id] = point
StorePoint(pts, point_data) ==
    [p \in (DOMAIN pts) \cup {point_data.id} |->
        IF p = point_data.id THEN Point(point_data) ELSE pts[p]]

\* DataStore.add_point
add_point(st, layer_id, point_data) ==
    IF layer_id \notin DOMAIN st.layers THEN st
    ELSE [st EXCEPT
            !.points[layer_id] = StorePoint(st.points[layer_id], point_data),
            !.layers[layer_id].point_count = st.layers[layer_id].point_count + 1]

RECURSIVE StoreAll(_, _)
StoreAll(pts, batch) ==
    IF batch = <<>> THEN pts
    ELSE StoreAll(StorePoint(pts, Head(batch)), Tail(batch))

\* lines 67-73: the attribute reads point_data.id, .label, .metadata, .vector
\* and .is_virtual succeed on a PointData and raise AttributeError on an
\* object that lacks one of them
Admissible(point_data) ==
    {"id", "label", "metadata", "vector", "is_virtual"} \subseteq DOMAIN point_data

\* the elements of the batch the loop of lines 66-76 gets through before one
\* of them raises
RECURSIVE AdmittedPrefix(_)
AdmittedPrefix(batch) ==
    IF batch = <<>> \/ ~Admissible(Head(batch)) THEN <<>>
    ELSE <<Head(batch)>> \o AdmittedPrefix(Tail(batch))

\* DataStore.add_points_bulk. Every element is stored as the loop reaches it
\* (line 75); point_count is raised after the loop (line 77), which an
\* exception inside the loop never reaches.
add_points_bulk(st, layer_id, batch) ==
    IF layer_id \notin DOMAIN st.layers THEN st
    ELSE IF Len(AdmittedPrefix(batch)) < Len(batch)
    THEN [st EXCEPT
            !.points[layer_id] = StoreAll(st.points[layer_id], AdmittedPrefix(batch)),
            !.raised = TRUE]
    ELSE [st EXCEPT
            !.points[layer_id] = StoreAll(st.points[layer_id], batch),
            !.layers[layer_id].point_count = st.layers[layer_id].point_count + Len(batch)]

\* DataStore.delete_layer: the layer and its points leave the store
delete_layer(st, layer_id) ==
    [st EXCEPT
        !.layers = Without(st.layers, layer_id),
        !.points = Without(st.points, layer_id)]


\* DataStore.generate_synthetic_data: a new layer of n_points labelled points;
\* the points' uuid4 ids are numbers no other layer's generated points have
generate_synthetic_data(st, n_points, dimensionality, layer_name) ==
    LET s1 == create_layer(st, layer_name, dimensionality, None)
        batch == [i \in 1..n_points |->
                    [id |-> (st.next_uuid - 1) * n_points + i,
                     vector |-> [d \in 1..dimensionality |-> i + d - 1],
                     label |-> <<"point", i - 1>>,
                     metadata |-> [cluster |-> 0, index |-> i - 1],
                     is_virtual |-> FALSE]]
    IN add_points_bulk(s1, st.next_uuid, batch)

-----------------------------------------------------------------------------
(* Transformation algorithms: N x D matrix (point id -> row) to N x D' matrix. *)
(* A result is [raised, out]: raised when numpy raises on the input.          *)

\* vectors.shape[1]
Dim(vectors) == Len(vectors[CHOOSE p \in DOMAIN vectors : TRUE])

Returned(out) == [raised |-> FALSE, out |-> out]
Raised == [raised |-> TRUE, out |-> EmptyDict]

\* a slip of line 126: without factors the vectors are returned as they are
apply_scaling_unit(vectors, params) ==
    IF "scale_factors" \notin DOMAIN params THEN Returned(vectors)
    ELSE LET given == params["scale_factors"]
             scale == IF Len(given) # Dim(vectors)
                      THEN [i \in 1..Dim(vectors) |->
                                IF Len(given) > 0 THEN given[1] ELSE 1]
                      ELSE given
         IN Returned([p \in DOMAIN vectors |->
                        [i \in 1..Dim(vectors) |-> vectors[p][i] * scale[i]]])

\* TransformEngine._apply_scaling
apply_scaling(vectors, params) ==
    IF "scale_factors" \notin DOMAIN params
    THEN Returned([p \in DOMAIN vectors |->
                    [i \in 1..Dim(vectors) |-> vectors[p][i] * 2]])
    ELSE LET given == params["scale_factors"]
             scale == IF Len(given) # Dim(vectors)
                      THEN [i \in 1..Dim(vectors) |->
                                IF Len(given) > 0 THEN given[1] ELSE 1]
                      ELSE given
         IN Returned([p \in DOMAIN vectors |->
                        [i \in 1..Dim(vectors) |-> vectors[p][i] * scale[i]]])

\* a numpy column index d on D columns: valid from -D to D-1, negative ones
\* count from the end
ValidIndex(d, D) == -D <= d /\ d < D
Column(d, D) == IF d >= 0 THEN d + 1 ELSE D + d + 1

\* np.cos and np.sin, for the angles whose values are exact
Cos(angle) == CASE angle = 0 -> 1
Sin(angle) == CASE angle = 0 -> 0

\* TransformEngine._apply_rotation
apply_rotation(vectors, params) ==
    LET angle == Get(params, "angle", 0)
        dims == Get(params, "dims", <<0, 1>>)
        D == Dim(vectors)
        d1 == dims[1]
        d2 == dims[2]
    IN IF ~(ValidIndex(d1, D) /\ ValidIndex(d2, D)) THEN Raised
       ELSE LET c1 == Column(d1, D)
                c2 == Column(d2, D)
                new_d1(v) == v[c1] * Cos(angle) - v[c2] * Sin(angle)
                new_d2(v) == v[c1] * Sin(angle) + v[c2] * Cos(angle)
            IN Returned([p \in DOMAIN vectors |->
                    [i \in 1..D |->
                        IF i = c2 THEN new_d2(vectors[p])
                        ELSE IF i = c1 THEN new_d1(vectors[p])
                        ELSE vectors[p][i]]])

\* Numbers that the code obtains by division are fractions [n, d] in lowest
\* terms with d > 0; the arithmetic below is numpy's float arithmetic on the
\* inputs for which it is exact
Abs(i) == IF i < 0 THEN -i ELSE i

RECURSIVE Gcd(_, _)
Gcd(a, b) == IF b = 0 THEN a ELSE Gcd(b, a % b)

Frac(n, d) ==
    LET g == Gcd(Abs(n), Abs(d))
        s == IF d < 0 THEN -1 ELSE 1
    IN [n |-> (s * n) \div g, d |-> (s * d) \div g]

Whole(i) == [n |-> i, d |-> 1]
FAdd(x, y) == Frac(x.n * y.d + y.n * x.d, x.d * y.d)
FSub(x, y) == Frac(x.n * y.d - y.n * x.d, x.d * y.d)
FMul(x, y) == Frac(x.n * y.n, x.d * y.d)
FDiv(x, y) == Frac(x.n * y.d, x.d * y.n)

\* np.sqrt of a whole number that is a square
Root(k) == CHOOSE r \in 0..k : r * r = k
FSqrt(x) == [n |-> Root(x.n), d |-> Root(x.d)]

RECURSIVE FSum(_)
FSum(xs) == IF xs = <<>> THEN Whole(0) ELSE FAdd(Head(xs), FSum(Tail(xs)))

\* u @ v for two vectors of one length
Dot(u, v) == FSum([i \in 1..Len(u) |-> FMul(u[i], v[i])])

\* np.linalg.norm of a vector
Norm(v) == FSqrt(Dot(v, v))

\* np.array(list, dtype=np.float64) of a list of whole numbers
AsFloats(v) == [i \in 1..Len(v) |-> Whole(v[i])]

\* np.mean(vectors, axis=0), of a matrix of whole numbers
MeanOf(vectors) ==
    LET ids == KeyList(DOMAIN vectors)
    IN [i \in 1..Dim(vectors) |->
            FDiv(FSum([k \in 1..Len(ids) |-> Whole(vectors[ids[k]][i])]),
                 Whole(Len(ids)))]

\* vectors - mean
Centered(vectors) ==
    LET mean == MeanOf(vectors)
    IN [p \in DOMAIN vectors |->
            [i \in 1..Dim(vectors) |-> FSub(Whole(vectors[p][i]), mean[i])]]

\* the loop that extracts the direction vectors of the axis definitions and
\* skips the definitions of another type and the vectors of norm zero
RECURSIVE RawVectors(_)
RawVectors(axes) ==
    IF axes = <<>> THEN <<>>
    ELSE LET axis_def == Head(axes)
         IN IF Get(axis_def, "type", "") = "direction"
                /\ Norm(AsFloats(axis_def.vector)).n > 0
            THEN <<AsFloats(axis_def.vector)>> \o RawVectors(Tail(axes))
            ELSE RawVectors(Tail(axes))

\* centered @ e1 with e1 = v1 / norm(v1), next to a column of zeros
OntoOneAxis(centered, v1) ==
    LET e1 == [i \in 1..Len(v1) |-> FDiv(v1[i], Norm(v1))]
    IN [p \in DOMAIN centered |-> <<Dot(centered[p], e1), Whole(0)>>]

\* projection_matrix = (V^T V)^-1 V^T for V = [v1 | v2], as its two rows;
\* np.linalg.inv raises LinAlgError on a singular V^T V. Result: [raised, out]
ProjectionMatrix(v1, v2) ==
    LET a == Dot(v1, v1)
        b == Dot(v1, v2)
        c == Dot(v2, v2)
        det == FSub(FMul(a, c), FMul(b, b))
    IN IF det.n = 0 THEN Raised
       ELSE Returned(
            <<[i \in 1..Len(v1) |->
                    FDiv(FSub(FMul(c, v1[i]), FMul(b, v2[i])), det)],
              [i \in 1..Len(v1) |->
                    FDiv(FSub(FMul(a, v2[i]), FMul(b, v1[i])), det)]>>)

\* centered @ projection_matrix.T
Oblique(centered, projection_matrix) ==
    [p \in DOMAIN centered |->
        <<Dot(centered[p], projection_matrix[1]),
          Dot(centered[p], projection_matrix[2])>>]

\* {**params, key: value, ...}
Merged(params, written) ==
    [k \in (DOMAIN params) \cup (DOMAIN written) |->
        IF k \in DOMAIN written THEN written[k] ELSE params[k]]

\* TransformEngine._apply_custom_axes_2d. Result: [raised, out, written];
\* written holds the keys the function adds to transformation.parameters
apply_custom_axes_2d(centered, raw_vectors, mean) ==
    IF \E k \in 1..Min(Len(raw_vectors), 2) :
            Len(raw_vectors[k]) # Len(mean)
    THEN Raised
    ELSE IF Len(raw_vectors) < 2
    THEN [raised |-> FALSE, out |-> OntoOneAxis(centered, raw_vectors[1]),
          written |-> [_mean |-> mean]]
    ELSE LET Projected(m) ==
                IF m.raised THEN Raised
                ELSE [raised |-> FALSE, out |-> Oblique(centered, m.out),
                      written |-> [_projection_matrix |-> m.out, _mean |-> mean]]
         IN Projected(ProjectionMatrix(raw_vectors[1], raw_vectors[2]))

\* TransformEngine._apply_custom_axes, in the 2d mode, and in the full mode
\* for a parameter map without usable axes
apply_custom_axes(vectors, params) ==
    LET output_mode == Get(params, "output_mode", "2d")
        axes == Get(params, "axes", <<>>)
        With(raw_vectors) ==
            CASE raw_vectors = <<>> ->
                    IF output_mode = "full" THEN Returned(vectors)
                    ELSE Returned([p \in DOMAIN vectors |-> <<0, 0>>])
              [] raw_vectors # <<>> /\ output_mode # "full" ->
                    apply_custom_axes_2d(Centered(vectors), raw_vectors,
                                         MeanOf(vectors))
    IN With(RawVectors(axes))

\* the dispatch on transformation.type in TransformEngine._apply_transformation
transform_vectors(type, params, vectors) ==
    CASE type = "scaling" -> apply_scaling(vectors, params)
      [] type = "rotation" -> apply_rotation(vectors, params)
      [] type = "custom_axes" -> apply_custom_axes(vectors, params)
      [] type = "custom_affine" ->
            apply_custom_axes(vectors,
                [k \in (DOMAIN params) \cup {"output_mode"} |->
                    IF k = "output_mode" THEN "full" ELSE params[k]])
      [] OTHER -> Returned(vectors)

-----------------------------------------------------------------------------
(* Transform engine *)

\* the list of PointData built at lines 88-100: every source point with its
\* id, label, metadata and is_virtual, and the transformed row
TransformedPoints(source_points, transformed) ==
    LET ids == KeyList(DOMAIN source_points)
    IN [i \in 1..Len(ids) |->
            [id |-> ids[i],
             label |-> source_points[ids[i]].label,
             metadata |-> source_points[ids[i]].metadata,
             vector |-> transformed[ids[i]],
             is_virtual |-> source_points[ids[i]].is_virtual]]

\* a slip of line 80: the preserved name is dropped
LayerNameGenerated(preserve_name, source_layer, transformation) ==
    source_layer.name \o <<"_">> \o transformation.name

\* line 80: the preserved name if one is given, else "{source.name}_{transformation.name}"
LayerName(preserve_name, source_layer, transformation) ==
    IF preserve_name # <<>> THEN preserve_name
    ELSE source_layer.name \o <<"_">> \o transformation.name

\* TransformEngine._apply_transformation. source_layer is the Layer object
\* the caller holds ([id, name]); preserve_name is <<>> for None.
\* Result: [st, outcome, target], outcome "ok" (target is the new layer),
\* "none" (returned None) or "raised" (an exception left the function);
\* parameters is transformation.parameters as the algorithm left it.
apply_transformation(st, tid, transformation, source_layer, preserve_name) ==
    LET s0 == [st EXCEPT !.applied = Append(@, tid)]
        vectors == get_vectors_as_array(s0, source_layer.id)
    IN IF DOMAIN vectors = {} THEN [st |-> s0, outcome |-> "none", target |-> 0]
       ELSE LET source_points == get_points(s0, source_layer.id)
                Stored(t) ==
                  IF t.raised THEN [st |-> s0, outcome |-> "raised", target |-> 0]
                  ELSE LET layer_name == LayerName(preserve_name, source_layer, transformation)
                           s1 == create_layer(s0, layer_name, Dim(t.out), Some(tid))
                           s2 == add_points_bulk(s1, s0.next_uuid,
                                       TransformedPoints(source_points, t.out))
                           s3 == IF "written" \in DOMAIN t
                                       /\ tid \in 1..Len(s2.transformations)
                                 THEN [s2 EXCEPT !.transformations[tid].parameters =
                                           Merged(@, t.written)]
                                 ELSE s2
                       IN [st |-> s3, outcome |-> "ok", target |-> s0.next_uuid,
                           parameters |-> IF "written" \in DOMAIN t
                                          THEN Merged(transformation.parameters,
                                                      t.written)
                                          ELSE transformation.parameters]
            IN Stored(transform_vectors(transformation.type,
                                        transformation.parameters, vectors))

\* a slip of line 424: every projection is rebound, whatever layer it views
update_layer_reference_all(st, old_layer_id, new_layer_id) ==
    [st EXCEPT
        !.projections = [p \in DOMAIN st.projections |->
            [st.projections[p] EXCEPT !.layer_id = new_layer_id]],
        !.projection_results = EmptyDict,
        !.computed_with = EmptyDict]

\* a slip of lines 427-428: the reference is rewritten and the cache entry kept
update_layer_reference_keeping(st, old_layer_id, new_layer_id) ==
    [st EXCEPT
        !.projections = [p \in DOMAIN st.projections |->
            IF st.projections[p].layer_id = old_layer_id
            THEN [st.projections[p] EXCEPT !.layer_id = new_layer_id]
            ELSE st.projections[p]]]

\* a slip of lines 427-428: the rebinding clears the whole cache
update_layer_reference_clearing(st, old_layer_id, new_layer_id) ==
    [st EXCEPT
        !.projections = [p \in DOMAIN st.projections |->
            IF st.projections[p].layer_id = old_layer_id
            THEN [st.projections[p] EXCEPT !.layer_id = new_layer_id]
            ELSE st.projections[p]],
        !.projection_results = EmptyDict,
        !.computed_with = EmptyDict]

\* ProjectionEngine._update_layer_reference
update_layer_reference(st, old_layer_id, new_layer_id) ==
    LET hit == {p \in DOMAIN st.projections :
                    st.projections[p].layer_id = old_layer_id}
    IN [st EXCEPT
          !.projections = [p \in DOMAIN st.projections |->
                IF p \in hit
                THEN [st.projections[p] EXCEPT !.layer_id = new_layer_id]
                ELSE st.projections[p]],
          !.projection_results =
                [p \in (DOMAIN st.projection_results) \ hit |-> st.projection_results[p]],
          !.computed_with =
                [p \in (DOMAIN st.computed_with) \ hit |-> st.computed_with[p]]]

\* a slip of line 431: the transformations are matched on their target
DownstreamByTarget(st, old_layer_id) ==
    SelectSeq([i \in 1..Len(st.transformations) |-> i],
              LAMBDA t : st.transformations[t].target_layer_id = old_layer_id)

\* the list `downstream` of lines 429-432, in dict order
Downstream(st, old_layer_id) ==
    SelectSeq([i \in 1..Len(st.transformations) |-> i],
              LAMBDA t : st.transformations[t].source_layer_id = old_layer_id)

\* the name recorded before a target layer is deleted (None when it is gone)
NameOf(st, layer_id) ==
    IF layer_id \in DOMAIN st.layers THEN st.layers[layer_id].name ELSE <<>>

RECURSIVE propagate_downstream(_, _, _)
RECURSIVE PropagateLoop(_, _, _)

\* a slip of lines 443-459: the source reference is rewritten and the stale
\* target layer is kept instead of being recomputed
PropagateStepReferenceOnly(st, t, new_layer_id) ==
    [st EXCEPT !.transformations[t].source_layer_id = new_layer_id]

\* one iteration of the loop of lines 434-459
PropagateStep(st, t, new_layer_id) ==
    LET s1 == [st EXCEPT !.transformations[t].source_layer_id = new_layer_id]
    IN IF new_layer_id \notin DOMAIN s1.layers THEN s1
       ELSE LET new_source == [id |-> new_layer_id,
                               name |-> s1.layers[new_layer_id].name]
                old_target_id == s1.transformations[t].target_layer_id
                old_target_name == NameOf(s1, old_target_id)
                s2 == delete_layer(s1, old_target_id)
                Applied(r) ==
                  CASE r.outcome = "raised" -> [r.st EXCEPT !.raised = TRUE]
                    [] r.outcome = "none" -> r.st
                    [] r.outcome = "ok" ->
                        propagate_downstream(
                            [r.st EXCEPT !.transformations[t].target_layer_id = r.target],
                            old_target_id, r.target)
            IN Applied(apply_transformation(s2, t, s2.transformations[t],
                                            new_source, old_target_name))

\* the for loop over `downstream`; an exception ends it
PropagateLoop(st, downstream, new_layer_id) ==
    IF downstream = <<>> \/ st.raised THEN st
    ELSE PropagateLoop(PropagateStep(st, Head(downstream), new_layer_id),
                       Tail(downstream), new_layer_id)

\* TransformEngine._propagate_downstream
propagate_downstream(st, old_layer_id, new_layer_id) ==
    LET s1 == update_layer_reference(st, old_layer_id, new_layer_id)
    IN PropagateLoop(s1, Downstream(s1, old_layer_id), new_layer_id)

\* a slip of lines 36-42: the transformation is registered before it is applied
create_transformation_registering(st, name, type, source_layer_id, parameters) ==
    IF source_layer_id \notin DOMAIN st.layers THEN [st |-> st, outcome |-> "none"]
    ELSE LET tid == Len(st.transformations) + 1
             transformation == [name |-> name, type |-> type,
                                source_layer_id |-> source_layer_id,
                                target_layer_id |-> 0,
                                parameters |-> parameters]
             source_layer == [id |-> source_layer_id,
                              name |-> st.layers[source_layer_id].name]
             s1 == [st EXCEPT !.transformations = Append(@, transformation)]
             Applied(r) ==
                IF r.outcome # "ok" THEN [st |-> s1, outcome |-> r.outcome]
                ELSE [st |-> [r.st EXCEPT !.transformations[tid].target_layer_id = r.target],
                      outcome |-> "ok"]
         IN Applied(apply_transformation(s1, tid, transformation, source_layer, <<>>))

\* TransformEngine.create_transformation. Result: [st, outcome]
create_transformation(st, name, type, source_layer_id, parameters) ==
    IF source_layer_id \notin DOMAIN st.layers THEN [st |-> st, outcome |-> "none"]
    ELSE LET tid == Len(st.transformations) + 1
             transformation == [name |-> name, type |-> type,
                                source_layer_id |-> source_layer_id,
                                target_layer_id |-> 0,
                                parameters |-> parameters]
             source_layer == [id |-> source_layer_id,
                              name |-> st.layers[source_layer_id].name]
             Applied(r) ==
                IF r.outcome # "ok" THEN [st |-> st, outcome |-> r.outcome]
                ELSE [st |-> [r.st EXCEPT !.transformations =
                                Append(@, [transformation EXCEPT
                                                !.target_layer_id = r.target,
                                                !.parameters = r.parameters])],
                      outcome |-> "ok"]
         IN Applied(apply_transformation(st, tid, transformation, source_layer, <<>>))

\* a slip of line 386: a new name asks for a recomputation too
NeedsRecomputeOnName(name, type, parameters) ==
    name # None \/ type # None \/ parameters # None

\* line 386: a new type or new parameters ask for a recomputation, a name does not
NeedsRecompute(name, type, parameters) == type # None \/ parameters # None

\* TransformEngine.update_transformation; name, type, parameters are Optional
update_transformation(st, tid, name, type, parameters) ==
    IF tid \notin 1..Len(st.transformations) THEN [st |-> st, outcome |-> "none"]
    ELSE
    LET s1 == IF name # None THEN [st EXCEPT !.transformations[tid].name = Val(name)]
              ELSE st
        needs_recompute == NeedsRecompute(name, type, parameters)
        source_id == s1.transformations[tid].source_layer_id
    IN IF ~needs_recompute THEN [st |-> s1, outcome |-> "ok"]
       ELSE IF source_id \notin DOMAIN s1.layers THEN [st |-> s1, outcome |-> "none"]
       ELSE
       LET source_layer == [id |-> source_id, name |-> s1.layers[source_id].name]
           s2 == [s1 EXCEPT
                    !.transformations[tid].type =
                        IF type # None THEN Val(type) ELSE @,
                    !.transformations[tid].parameters =
                        IF parameters # None THEN Val(parameters) ELSE @]
           old_target_id == s2.transformations[tid].target_layer_id
           old_target_name == NameOf(s2, old_target_id)
           s3 == delete_layer(s2, old_target_id)
           Propagated(s5) ==
                [st |-> s5, outcome |-> IF s5.raised THEN "raised" ELSE "ok"]
           Applied(r) ==
                IF r.outcome # "ok" THEN [st |-> r.st, outcome |-> r.outcome]
                ELSE LET s4 == [r.st EXCEPT
                                    !.transformations[tid].target_layer_id = r.target]
                     IN Propagated(propagate_downstream(s4, old_target_id, r.target))
       IN Applied(apply_transformation(s3, tid, s3.transformations[tid],
                                       source_layer, old_target_name))

-----------------------------------------------------------------------------
(* Projection engine *)

\* lines 309-325: the indices dim_x, dim_y and, unless dimensions is 2, dim_z,
\* after min(dim, n_dims - 1), with which the columns are read
direct_indices(n_dims, dimensions, parameters) ==
    LET dim_x == Min(Get(parameters, "dim_x", 0), n_dims - 1)
        dim_y == Min(Get(parameters, "dim_y", 1), n_dims - 1)
        dim_z == Min(Get(parameters, "dim_z", 2), n_dims - 1)
    IN IF dimensions = 2 THEN <<dim_x, dim_y>> ELSE <<dim_x, dim_y, dim_z>>

\* ProjectionEngine._compute_direct
compute_direct(vectors, dimensions, parameters) ==
    LET n_dims == Dim(vectors)
        used == direct_indices(n_dims, dimensions, parameters)
    IN IF \E i \in 1..Len(used) : ~ValidIndex(used[i], n_dims) THEN Raised
       ELSE Returned([p \in DOMAIN vectors |->
                [i \in 1..Len(used) |-> vectors[p][Column(used[i], n_dims)]]])

\* lines 290-293: projected * (norm(v1), norm(v2))
Scaled(projected, v1, v2) ==
    [p \in DOMAIN projected |->
        <<FMul(projected[p][1], Norm(v1)), FMul(projected[p][2], Norm(v2))>>]

\* ProjectionEngine._compute_custom_axes
compute_custom_axes(vectors, dimensions, parameters) ==
    LET axes == Get(parameters, "axes", <<>>)
        zeros == [p \in DOMAIN vectors |-> [i \in 1..dimensions |-> 0]]
        Padded(projected) ==
            Returned([p \in DOMAIN vectors |->
                        [i \in 1..Max(dimensions, 2) |->
                            IF i <= 2 THEN projected[p][i] ELSE Whole(0)]])
        OnOne(coords) ==
            Returned([p \in DOMAIN vectors |->
                        IF dimensions = 2 THEN coords[p] ELSE <<coords[p][1]>>])
        OnTwo(v1, v2, m) ==
            IF m.raised THEN Raised
            ELSE Padded(Scaled(Oblique(Centered(vectors), m.out), v1, v2))
        With(raw_vectors) ==
            IF axes = <<>> \/ raw_vectors = <<>> THEN Returned(zeros)
            ELSE IF \E k \in 1..Min(Len(raw_vectors), 2) :
                        Len(raw_vectors[k]) # Dim(vectors)
            THEN Raised
            ELSE IF Len(raw_vectors) < 2
            THEN OnOne(OntoOneAxis(Centered(vectors), raw_vectors[1]))
            ELSE OnTwo(raw_vectors[1], raw_vectors[2],
                       ProjectionMatrix(raw_vectors[1], raw_vectors[2]))
    IN With(RawVectors(SubSeq(axes, 1, Min(Len(axes), dimensions))))

\* sklearn's PCA(n_components).fit_transform, by its shape: one score for
\* each row on each of the first n_components components
fit_transform(vectors, n_components) ==
    [p \in DOMAIN vectors |->
        [k \in 1..n_components |-> [component |-> k - 1, row |-> vectors[p]]]]

RECURSIVE PaddedIndices(_, _, _, _)
\* lines 166-171: the components not selected yet are appended in order
\* until there are `dimensions` of them
PaddedIndices(selected_indices, i, n_columns, dimensions) ==
    IF i >= n_columns THEN selected_indices
    ELSE IF \E j \in 1..Len(selected_indices) : selected_indices[j] = i
    THEN IF Len(selected_indices) >= dimensions THEN selected_indices
         ELSE PaddedIndices(selected_indices, i + 1, n_columns, dimensions)
    ELSE IF Len(selected_indices) + 1 >= dimensions
    THEN Append(selected_indices, i)
    ELSE PaddedIndices(Append(selected_indices, i), i + 1, n_columns, dimensions)

\* the largest element of a list of integers that is not empty
MaxOf(list) == CHOOSE x \in {list[i] : i \in 1..Len(list)} :
                    \A i \in 1..Len(list) : list[i] <= x

\* ProjectionEngine._compute_pca
compute_pca(vectors, dimensions, parameters) ==
    LET given == Get(parameters, "components", <<>>)
        n_rows == Cardinality(DOMAIN vectors)
        n_components ==
            IF given # <<>>
            THEN Min(Min(MaxOf(given) + 1, Dim(vectors)), n_rows)
            ELSE Min(Min(dimensions, Dim(vectors)), n_rows)
        component_indices ==
            IF given # <<>> THEN given ELSE [i \in 1..n_components |-> i - 1]
        Selected(all_coords, selected_indices) ==
            Returned([p \in DOMAIN vectors |->
                [j \in 1..Min(Len(selected_indices), dimensions) |->
                    all_coords[p][selected_indices[j] + 1]]])
        Padded(selected_indices) ==
            Selected(fit_transform(vectors, n_components),
                     IF Len(selected_indices) < dimensions
                     THEN PaddedIndices(selected_indices, 0, n_components, dimensions)
                     ELSE selected_indices)
    IN Padded(SelectSeq(component_indices, LAMBDA i : i < n_components))

\* np.random.uniform(-0.1, 0.1): the value the generator gives after
\* `drawn` values, named by its place in the generator's stream
Uniform(drawn) == [value |-> drawn]

\* ProjectionEngine._compute_density. Result: [raised, out, drawn]; drawn is
\* the number of values taken from the global generator
compute_density(drawn_before, vectors, parameters) ==
    LET n_dims == Dim(vectors)
        dim == Min(Get(parameters, "dim", 0), n_dims - 1)
    IN IF ~ValidIndex(dim, n_dims) THEN Raised
       ELSE [raised |-> FALSE,
             out |-> [p \in DOMAIN vectors |->
                        <<vectors[p][Column(dim, n_dims)],
                          Uniform(drawn_before
                                  + Cardinality({q \in DOMAIN vectors : q < p}))>>],
             drawn |-> Cardinality(DOMAIN vectors)]

\* ProjectionEngine._compute_boxplot: the statements of _compute_density
compute_boxplot(drawn_before, vectors, parameters) ==
    compute_density(drawn_before, vectors, parameters)

\* ProjectionEngine._compute_violin: the statements of _compute_density
compute_violin(drawn_before, vectors, parameters) ==
    compute_density(drawn_before, vectors, parameters)

\* the number of values a computation took from the global generator
DrawnBy(results) == IF "drawn" \in DOMAIN results THEN results.drawn ELSE 0

\* ProjectionEngine._compute_projection, all points. Result: [raised, out];
\* out is None or Some(point id -> ProjectedPoint)
compute_projection(st, projection) ==
    LET vectors == get_vectors_as_array(st, projection.layer_id)
        source_points == get_points(st, projection.layer_id)
    IN IF DOMAIN vectors = {} THEN Returned(None)
       ELSE LET Labelled(coords) ==
                    IF coords = None THEN Returned(None)
                    ELSE IF Val(coords).raised THEN Raised
                    ELSE [raised |-> FALSE,
                          out |-> Some([p \in DOMAIN vectors |->
                            [label |-> source_points[p].label,
                             metadata |-> source_points[p].metadata,
                             coordinates |-> Val(coords).out[p],
                             is_virtual |-> source_points[p].is_virtual]]),
                          drawn |-> DrawnBy(Val(coords))]
            IN Labelled(
                    CASE projection.type = "pca" ->
                            Some(compute_pca(vectors, projection.dimensions,
                                             projection.parameters))
                      [] projection.type = "density" ->
                            Some(compute_density(st.random, vectors,
                                                 projection.parameters))
                      [] projection.type = "boxplot" ->
                            Some(compute_boxplot(st.random, vectors,
                                                 projection.parameters))
                      [] projection.type = "violin" ->
                            Some(compute_violin(st.random, vectors,
                                                projection.parameters))
                      [] projection.type = "direct" ->
                            Some(compute_direct(vectors, projection.dimensions,
                                                projection.parameters))
                      [] projection.type = "custom_axes" ->
                            Some(compute_custom_axes(vectors, projection.dimensions,
                                                     projection.parameters))
                      [] OTHER -> None)

\* a slip of lines 61-62: the cache is not consulted
ensure_computed_again(st, projection_id) ==
    IF projection_id \notin DOMAIN st.projections
    THEN [st |-> st, ok |-> FALSE, computed |-> FALSE, raised |-> FALSE]
    ELSE LET projection == st.projections[projection_id]
             entry == [layer_id |-> projection.layer_id,
                       parameters |-> projection.parameters]
             Cached(results) ==
                IF results.raised
                THEN [st |-> st, ok |-> FALSE, computed |-> TRUE, raised |-> TRUE]
                ELSE IF results.out # None /\ DOMAIN Val(results.out) # {}
                THEN [st |-> [st EXCEPT
                                !.projection_results =
                                    (projection_id :> Val(results.out)) @@ @,
                                !.computed_with = (projection_id :> entry) @@ @,
                                !.random = @ + DrawnBy(results)],
                      ok |-> TRUE, computed |-> TRUE, raised |-> FALSE]
                ELSE [st |-> st, ok |-> FALSE, computed |-> TRUE, raised |-> FALSE]
         IN Cached(compute_projection(st, projection))

\* a slip of lines 73-76: whatever the computation returned is cached
ensure_computed_storing(st, projection_id) ==
    IF projection_id \in DOMAIN st.projection_results
    THEN [st |-> st, ok |-> TRUE, computed |-> FALSE, raised |-> FALSE]
    ELSE IF projection_id \notin DOMAIN st.projections
    THEN [st |-> st, ok |-> FALSE, computed |-> FALSE, raised |-> FALSE]
    ELSE LET projection == st.projections[projection_id]
             entry == [layer_id |-> projection.layer_id,
                       parameters |-> projection.parameters]
             Cached(results) ==
                IF results.raised
                THEN [st |-> st, ok |-> FALSE, computed |-> TRUE, raised |-> TRUE]
                ELSE [st |-> [st EXCEPT
                                !.projection_results =
                                    @ @@ (projection_id :>
                                            IF results.out = None THEN EmptyDict
                                            ELSE Val(results.out)),
                                !.computed_with = @ @@ (projection_id :> entry),
                                !.random = @ + DrawnBy(results)],
                      ok |-> TRUE, computed |-> TRUE, raised |-> FALSE]
         IN Cached(compute_projection(st, projection))

\* ProjectionEngine._ensure_computed. Result: [st, ok, computed, raised];
\* computed tells whether _compute_projection was invoked
ensure_computed(st, projection_id) ==
    IF projection_id \in DOMAIN st.projection_results
    THEN [st |-> st, ok |-> TRUE, computed |-> FALSE, raised |-> FALSE]
    ELSE IF projection_id \notin DOMAIN st.projections
    THEN [st |-> st, ok |-> FALSE, computed |-> FALSE, raised |-> FALSE]
    ELSE LET projection == st.projections[projection_id]
             Cached(results) ==
                IF results.raised
                THEN [st |-> st, ok |-> FALSE, computed |-> TRUE, raised |-> TRUE]
                ELSE IF results.out # None /\ DOMAIN Val(results.out) # {}
                THEN [st |-> [st EXCEPT
                                !.projection_results =
                                    @ @@ (projection_id :> Val(results.out)),
                                !.computed_with =
                                    @ @@ (projection_id :>
                                            [layer_id |-> projection.layer_id,
                                             parameters |-> projection.parameters]),
                                !.random = @ + DrawnBy(results)],
                      ok |-> TRUE, computed |-> TRUE, raised |-> FALSE]
                ELSE [st |-> st, ok |-> FALSE, computed |-> TRUE, raised |-> FALSE]
         IN Cached(compute_projection(st, projection))

\* ProjectionEngine.get_projection_coordinates. Result: [st, returned, computed, raised]
get_projection_coordinates(st, projection_id) ==
    LET Coordinates(e) ==
            [st |-> e.st,
             returned |-> IF ~e.raised /\ projection_id \in DOMAIN e.st.projection_results
                          THEN Some(e.st.projection_results[projection_id]) ELSE None,
             computed |-> e.computed,
             raised |-> e.raised]
    IN Coordinates(ensure_computed(st, projection_id))

\* a slip of lines 54-55: the projection is computed whatever compute_now says
create_projection_always(st, id, name, type, layer_id, dimensions, parameters, compute_now, seed) ==
    IF layer_id \notin DOMAIN st.layers THEN st
    ELSE LET projection ==
                [name |-> name, type |-> type, layer_id |-> layer_id,
                 dimensions |-> dimensions, parameters |-> parameters,
                 random_seed |-> Get(parameters, "random_seed", seed)]
         IN ensure_computed([st EXCEPT !.projections = @ @@ (id :> projection),
                                       !.random = @ + 1], id).st

\* ProjectionEngine.create_projection; the new projection's id is `id`
create_projection(st, id, name, type, layer_id, dimensions, parameters, compute_now, seed) ==
    IF layer_id \notin DOMAIN st.layers THEN st
    ELSE LET projection ==
                [name |-> name, type |-> type, layer_id |-> layer_id,
                 dimensions |-> dimensions, parameters |-> parameters,
                 random_seed |-> Get(parameters, "random_seed", seed)]
             s1 == [st EXCEPT !.projections = @ @@ (id :> projection),
                              !.random = @ + 1]
         IN IF compute_now THEN ensure_computed(s1, id).st ELSE s1

\* a slip of lines 416-417: new parameters leave the cache entry in place
update_projection_keeping(st, projection_id, name, parameters) ==
    IF projection_id \notin DOMAIN st.projections THEN st
    ELSE [st EXCEPT
            !.projections[projection_id].name =
                IF name # None THEN Val(name) ELSE @,
            !.projections[projection_id].parameters =
                IF parameters # None THEN Val(parameters) ELSE @]

\* a slip of line 413: an empty parameter mapping counts as no parameters
update_projection_truthy(st, projection_id, name, parameters) ==
    IF projection_id \notin DOMAIN st.projections THEN st
    ELSE LET s1 == IF name # None
                   THEN [st EXCEPT !.projections[projection_id].name = Val(name)]
                   ELSE st
         IN IF parameters # None /\ Val(parameters) # EmptyDict
            THEN [s1 EXCEPT
                    !.projections[projection_id].parameters = Val(parameters),
                    !.projection_results = Without(@, projection_id),
                    !.computed_with = Without(@, projection_id)]
            ELSE s1

\* ProjectionEngine.update_projection; name and parameters are Optional
update_projection(st, projection_id, name, parameters) ==
    IF projection_id \notin DOMAIN st.projections THEN st
    ELSE LET s1 == IF name # None
                   THEN [st EXCEPT !.projections[projection_id].name = Val(name)]
                   ELSE st
         IN IF parameters # None
            THEN [s1 EXCEPT
                    !.projections[projection_id].parameters = Val(parameters),
                    !.projection_results = Without(@, projection_id),
                    !.computed_with = Without(@, projection_id)]
            ELSE s1

\* ProjectionEngine.invalidate_cache; projection_id is Optional
invalidate_cache(st, projection_id) ==
    IF projection_id = None
    THEN [st EXCEPT !.projection_results = EmptyDict, !.computed_with = EmptyDict]
    ELSE [st EXCEPT !.projection_results = Without(@, Val(projection_id)),
                    !.computed_with = Without(@, Val(projection_id))]

\* ProjectionEngine.set_cached_coordinates
set_cached_coordinates(st, projection_id, results) ==
    [st EXCEPT !.projection_results =
                    (projection_id :> results) @@ Without(@, projection_id)]

\* a slip of lines 462-463: the cache entry outlives the projection
delete_projection_keeping(st, projection_id) ==
    IF projection_id \notin DOMAIN st.projections THEN st
    ELSE [st EXCEPT !.projections = Without(@, projection_id)]

\* ProjectionEngine.delete_projection
delete_projection(st, projection_id) ==
    IF projection_id \notin DOMAIN st.projections THEN st
    ELSE [st EXCEPT !.projections = Without(@, projection_id),
                    !.projection_results = Without(@, projection_id),
                    !.computed_with = Without(@, projection_id)]

-----------------------------------------------------------------------------
(* Scenario files: routers/scenarios.py. The file holds the JSON document;  *)
(* ids are written with str(uuid) and read back with UUID(string).          *)

\* str(uuid)
StrOf(id) == <<"uuid", id>>

\* UUID(string)
UUIDOf(string) == string[2]

\* str(x) if x else None, for an Optional id held as None or Some(id)
StrOrNone(opt) == IF opt = None THEN None ELSE Some(StrOf(Val(opt)))

\* UUID(x) if x else None
UUIDOrNone(opt) == IF opt = None THEN None ELSE Some(UUIDOf(Val(opt)))

\* the `state` dict of save_current (lines 75-124) for a store whose point
\* entries are dicts
save_current(st) ==
    LET layer_ids == KeyList(DOMAIN st.layers)
        projection_ids == KeyList(DOMAIN st.projections)
    IN [layers |->
            [i \in 1..Len(layer_ids) |->
                LET layer == st.layers[layer_ids[i]]
                IN [id |-> StrOf(layer_ids[i]),
                    name |-> layer.name,
                    dimensionality |-> layer.dimensionality,
                    is_derived |-> layer.is_derived,
                    source_transformation_id |->
                        StrOrNone(layer.source_transformation_id)]],
        points |->
            [key \in {StrOf(layer_id) : layer_id \in DOMAIN st.points} |->
                LET pts == st.points[UUIDOf(key)]
                    ids == KeyList(DOMAIN pts)
                IN [i \in 1..Len(ids) |->
                        [id |-> StrOf(ids[i]),
                         vector |-> pts[ids[i]].vector,
                         metadata |-> pts[ids[i]].metadata]]],
        transformations |->
            [t \in 1..Len(st.transformations) |->
                [id |-> StrOf(t),
                 name |-> st.transformations[t].name,
                 type |-> st.transformations[t].type,
                 source_layer_id |-> StrOf(st.transformations[t].source_layer_id),
                 target_layer_id |->
                    IF st.transformations[t].target_layer_id = 0 THEN None
                    ELSE Some(StrOf(st.transformations[t].target_layer_id)),
                 parameters |-> st.transformations[t].parameters]],
        projections |->
            [i \in 1..Len(projection_ids) |->
                LET projection == st.projections[projection_ids[i]]
                IN [id |-> StrOf(projection_ids[i]),
                    name |-> projection.name,
                    type |-> projection.type,
                    layer_id |-> StrOf(projection.layer_id),
                    dimensions |-> projection.dimensions,
                    parameters |-> projection.parameters,
                    random_seed |-> projection.random_seed]]]

\* fixtures.clear_all
clear_all(st) ==
    [st EXCEPT !.layers = EmptyDict, !.points = EmptyDict,
               !.projections = EmptyDict, !.projection_results = EmptyDict,
               !.computed_with = EmptyDict, !.transformations = <<>>]

\* Point(id=..., layer_id=..., vector=..., metadata=...) of lines 170-175: the
\* label and is_virtual are not passed and take the defaults of the class
LoadedPoint(p_data) ==
    [id |-> UUIDOf(p_data.id), vector |-> p_data.vector,
     metadata |-> p_data.metadata, label |-> <<>>, is_virtual |-> FALSE]

\* load_saved from line 148 on, for the `state` read from the file.
\* Result: [st, listed, outcome]. The layers are restored; every entry of
\* store._points becomes a list of Point objects; the first transformation,
\* or without one the first projection, is assigned to an attribute that
\* DataStore does not have (lines 193, 206) and AttributeError leaves the
\* function
load_saved(st, state) ==
    LET s1 == clear_all(st)
        ids == {UUIDOf(state.layers[i].id) : i \in 1..Len(state.layers)}
        DataOf(layer_id) ==
            state.layers[CHOOSE i \in 1..Len(state.layers) :
                            UUIDOf(state.layers[i].id) = layer_id]
        lists == [layer_id \in {UUIDOf(key) : key \in DOMAIN state.points} |->
                    LET points_data == state.points[StrOf(layer_id)]
                    IN [i \in 1..Len(points_data) |-> LoadedPoint(points_data[i])]]
        s2 == [s1 EXCEPT
                !.layers = [layer_id \in ids |->
                    [name |-> DataOf(layer_id).name,
                     dimensionality |-> DataOf(layer_id).dimensionality,
                     point_count |-> IF layer_id \in DOMAIN lists
                                     THEN Len(lists[layer_id]) ELSE 0,
                     source_transformation_id |->
                        UUIDOrNone(DataOf(layer_id).source_transformation_id),
                     is_derived |-> DataOf(layer_id).is_derived]],
                !.points = lists]
    IN [st |-> s2, listed |-> DOMAIN lists,
        outcome |-> IF Len(state.transformations) > 0 \/ Len(state.projections) > 0
                    THEN "raised" ELSE "ok"]

-----------------------------------------------------------------------------
(* Inputs of the calls *)

TransformationNames == {<<"t">>}
NewTransformationNames == {<<"r">>}

Triple == [scale_factors |-> <<3>>]

\* (type, parameters) pairs of create_transformation
TransformationInputs ==
    {[type |-> "scaling", parameters |-> EmptyDict]}

\* (type?, parameters?) pairs of update_transformation that recompute;
\* a rotation of the axes 0 and 1 raises on a layer of one dimension
RecomputeInputs ==
    {[type |-> None, parameters |-> Some(Triple)],
     [type |-> Some("rotation"), parameters |-> None],
     [type |-> Some("scaling"), parameters |-> Some(EmptyDict)]}

\* parameters of a scaling: no factors, one, two and none at all in the list
ScalingParameters ==
    {EmptyDict, [scale_factors |-> <<3>>], [scale_factors |-> <<3, 4>>],
     [scale_factors |-> <<>>]}
ScalingInputs == {[type |-> "scaling", parameters |-> p] : p \in ScalingParameters}
ScalingRecomputeInputs ==
    {[type |-> None, parameters |-> Some(p)] : p \in ScalingParameters}

ViewTransformationInputs == {[type |-> "scaling", parameters |-> Triple]}
CacheRecomputeInputs == {[type |-> None, parameters |-> Some(EmptyDict)]}

\* new parameters that leave the factor at its default, and that change it
PropagateRecomputeInputs ==
    {[type |-> None, parameters |-> Some(EmptyDict)],
     [type |-> None, parameters |-> Some(Triple)]}

\* transformations of the types affine and linear on rows of one column: a
\* 1 x 1 matrix M = (2) and a translation t = (1), each given or left out
AffineInputs ==
    {[type |-> "affine", parameters |-> [matrix |-> <<<<2>>>>, translation |-> <<1>>]],
     [type |-> "affine", parameters |-> [matrix |-> <<<<2>>>>]],
     [type |-> "affine", parameters |-> [translation |-> <<1>>]],
     [type |-> "affine", parameters |-> EmptyDict],
     [type |-> "linear", parameters |-> [matrix |-> <<<<2>>>>]]}

\* an edit that gives a transformation the matrix M = (3)
AffineRecomputeInputs ==
    {[type |-> None, parameters |-> Some([matrix |-> <<<<3>>>>])]}

\* transformations whose output has two columns whatever the input (custom
\* axes without axes), that need two columns (rotation of the axes 0 and 1),
\* and that keep the columns of their input (scaling)
BranchInputs ==
    {[type |-> "custom_axes", parameters |-> EmptyDict],
     [type |-> "rotation", parameters |-> EmptyDict],
     [type |-> "scaling", parameters |-> EmptyDict]}

\* a new type that takes the target layer from two columns to the columns of
\* the source
BranchRecomputeInputs == {[type |-> Some("scaling"), parameters |-> None]}

\* with a rotation, which raises on the root layer's single dimension
ViewRecomputeInputs ==
    {[type |-> None, parameters |-> Some(EmptyDict)],
     [type |-> Some("rotation"), parameters |-> None]}

ProjectionParameters == {EmptyDict, [dim_x |-> 1]}

\* dimension indices a client may send: below -D, negative, valid, and >= D
\* for the layers of up to three columns
DirectIndexInputs == {-4, -1, 0, 1, 3}

\* (dimensions, parameters) pairs of create_projection for the type direct
DirectInputs ==
    {[dimensions |-> 2, parameters |-> EmptyDict],
     [dimensions |-> 3, parameters |-> EmptyDict]}
    \cup {[dimensions |-> 2, parameters |-> [dim_x |-> x, dim_y |-> y]] :
            x \in DirectIndexInputs, y \in {0, 3}}
    \cup {[dimensions |-> 3, parameters |-> [dim_z |-> z]] :
            z \in DirectIndexInputs}

\* a type _compute_projection has a branch for, and one it has none for
ProjectionTypes == {"direct", "unknown"}

\* PointData of add_point: one under the id of a generated point of the root
\* layer, one under an id no layer holds
PointInputs ==
    {[id |-> 1, vector |-> <<5>>, label |-> <<"again">>,
      metadata |-> EmptyDict, is_virtual |-> FALSE],
     [id |-> 9, vector |-> <<7>>, label |-> <<"virtual">>,
      metadata |-> EmptyDict, is_virtual |-> TRUE]}

\* the two PointData of PointInputs, a third under the id of the second, and
\* an object that is not a PointData
Again == CHOOSE point_data \in PointInputs : point_data.id = 1
Fresh == CHOOSE point_data \in PointInputs : point_data.id = 9
FreshTwin == [Fresh EXCEPT !.vector = <<8>>, !.label = <<"twin">>]
NotPointData == [vector |-> <<6>>]

\* batches of add_points_bulk: one point, two points, two points under one
\* id, and a batch whose second element cannot be admitted
BatchInputs ==
    {<<Fresh>>, <<Again, Fresh>>, <<Fresh, FreshTwin>>, <<Fresh, NotPointData>>}

Seeds == {42}

-----------------------------------------------------------------------------
(* The calls as actions *)

Called(op, id, outcome, applied, computed, returned) ==
    [op |-> op, id |-> id, outcome |-> outcome, applied |-> applied,
     computed |-> computed, returned |-> returned]

\* the store and the engines after a statement that left st
Stores(st) ==
    /\ layers' = st.layers
    /\ points' = st.points
    /\ transformations' = st.transformations
    /\ projections' = st.projections
    /\ projection_results' = st.projection_results
    /\ computed_with' = st.computed_with
    /\ next_uuid' = st.next_uuid
    /\ random' = st.random

\* the program state after a call that left st
Becomes(st) ==
    /\ Stores(st)
    /\ readers' = readers
    /\ writer' = writer
    /\ saved' = saved
    /\ listed' = listed

CreateTransformation(max_layers, max_transformations, inputs) ==
    \E name \in TransformationNames, in \in inputs,
       source_layer_id \in DOMAIN layers :
        LET r == create_transformation(State, name, in.type, source_layer_id,
                                       in.parameters)
        IN /\ Len(transformations) < max_transformations
           /\ r.st.next_uuid <= max_layers + 1
           /\ Becomes(r.st)
           /\ last' = Called("create_transformation", Len(transformations) + 1,
                             r.outcome, r.st.applied, FALSE, None)
           /\ UNCHANGED next_projection

\* create_transformation on any layer id ever drawn, or on one never drawn
CreateTransformationFrom(max_layers, max_transformations, inputs) ==
    \E name \in TransformationNames, in \in inputs,
       source_layer_id \in 0..(next_uuid - 1) :
        LET r == create_transformation(State, name, in.type, source_layer_id,
                                       in.parameters)
        IN /\ Len(transformations) < max_transformations
           /\ r.st.next_uuid <= max_layers + 1
           /\ Becomes(r.st)
           /\ last' = Called("create_transformation", Len(transformations) + 1,
                             r.outcome, r.st.applied, FALSE, None)
           /\ UNCHANGED next_projection

RenameTransformation ==
    \E tid \in 1..Len(transformations), name \in NewTransformationNames :
        LET r == update_transformation(State, tid, Some(name), None, None)
        IN /\ Becomes(r.st)
           /\ last' = Called("rename_transformation", tid, r.outcome,
                             r.st.applied, FALSE, None)
           /\ UNCHANGED next_projection

UpdateTransformation(max_layers, inputs) ==
    \E tid \in 1..Len(transformations), in \in inputs :
        LET r == update_transformation(State, tid, None, in.type, in.parameters)
        IN /\ r.st.next_uuid <= max_layers + 1
           /\ Becomes(r.st)
           /\ last' = Called("update_transformation", tid, r.outcome,
                             r.st.applied, FALSE, None)
           /\ UNCHANGED next_projection

\* update_transformation with a name next to the new type or parameters
UpdateTransformationNamed(max_layers, names, inputs) ==
    \E tid \in 1..Len(transformations), name \in names, in \in inputs :
        LET Updated(r) ==
                /\ r.st.next_uuid <= max_layers + 1
                /\ Becomes(r.st)
                /\ last' = Called("update_transformation", tid, r.outcome,
                                  r.st.applied, FALSE, None)
                /\ UNCHANGED next_projection
        IN Updated(update_transformation(State, tid, name, in.type, in.parameters))

AddPoint(max_points) ==
    \E layer_id \in DOMAIN layers, point_data \in PointInputs :
        /\ layers[layer_id].point_count < max_points
        /\ Becomes(add_point(State, layer_id, point_data))
        /\ last' = Called("add_point", layer_id, "ok", <<>>, FALSE, None)
        /\ UNCHANGED next_projection

CreateProjection(max_projections, eager) ==
    \E layer_id \in DOMAIN layers, compute_now \in eager, seed \in Seeds :
        /\ next_projection <= max_projections
        /\ Becomes(create_projection(State, next_projection, <<"v">>, "direct",
                                     layer_id, 2, EmptyDict, compute_now, seed))
        /\ next_projection' = next_projection + 1
        /\ last' = Called("create_projection", next_projection, "ok", <<>>,
                          compute_now, None)

\* add_points_bulk on a layer of the store or on an id the store does not know
AddPointsBulk(max_points) ==
    \E layer_id \in (DOMAIN layers) \cup {0}, batch \in BatchInputs :
        LET st == add_points_bulk(State, layer_id, batch)
        IN /\ layer_id \in DOMAIN layers =>
                layers[layer_id].point_count + Len(batch) <= max_points
           /\ Becomes(st)
           /\ last' = Called("add_points_bulk", layer_id,
                             IF st.raised THEN "raised" ELSE "ok", <<>>, FALSE,
                             IF st.raised THEN None
                             ELSE IF layer_id \in DOMAIN layers THEN Some(Len(batch))
                             ELSE Some(0))
           /\ UNCHANGED next_projection

\* a layer created without points
CreateLayer(max_layers) ==
    /\ next_uuid <= max_layers
    /\ Becomes(create_layer(State, <<"E">>, 1, None))
    /\ last' = Called("create_layer", next_uuid, "ok", <<>>, FALSE, None)
    /\ UNCHANGED next_projection

CreateProjectionOfType(max_projections, types) ==
    \E layer_id \in DOMAIN layers, type \in types, compute_now \in BOOLEAN,
       seed \in Seeds :
        /\ next_projection <= max_projections
        /\ Becomes(create_projection(State, next_projection, <<"v">>, type,
                                     layer_id, 2, EmptyDict, compute_now, seed))
        /\ next_projection' = next_projection + 1
        /\ last' = Called("create_projection", next_projection, "ok", <<>>,
                          compute_now, None)

\* get_projection_coordinates on any id ever drawn, deleted ones included
ReadCoordinates ==
    \E projection_id \in 1..(next_projection - 1) :
        LET r == get_projection_coordinates(State, projection_id)
        IN /\ Becomes(r.st)
           /\ last' = Called("get_projection_coordinates", projection_id,
                             IF r.raised THEN "raised" ELSE "ok", <<>>,
                             r.computed, r.returned)
           /\ UNCHANGED next_projection

\* update_projection on any id ever drawn, deleted ones included
UpdateAnyProjection ==
    \E projection_id \in 1..(next_projection - 1),
       name \in {None, Some(<<"w">>)},
       parameters \in {None, Some([dim_x |-> 1])} :
        /\ name # None \/ parameters # None
        /\ Becomes(update_projection(State, projection_id, name, parameters))
        /\ last' = Called(IF parameters # None THEN "update_projection"
                                                ELSE "rename_projection",
                          projection_id, "ok", <<>>, FALSE, None)
        /\ UNCHANGED next_projection

GetProjectionCoordinates ==
    \E projection_id \in DOMAIN projections :
        LET r == get_projection_coordinates(State, projection_id)
        IN /\ Becomes(r.st)
           /\ last' = Called("get_projection_coordinates", projection_id,
                             IF r.raised THEN "raised" ELSE "ok", <<>>,
                             r.computed, r.returned)
           /\ UNCHANGED next_projection

UpdateProjection ==
    \E projection_id \in DOMAIN projections,
       name \in {None, Some(<<"w">>)},
       parameters \in {None} \cup {Some(p) : p \in ProjectionParameters} :
        /\ name # None \/ parameters # None
        /\ Becomes(update_projection(State, projection_id, name, parameters))
        /\ last' = Called(IF parameters # None THEN "update_projection"
                                                ELSE "rename_projection",
                          projection_id, "ok", <<>>, FALSE, None)
        /\ UNCHANGED next_projection

InvalidateCache ==
    \E projection_id \in {None} \cup {Some(p) : p \in DOMAIN projections} :
        /\ Becomes(invalidate_cache(State, projection_id))
        /\ last' = Called("invalidate_cache",
                          IF projection_id = None THEN 0 ELSE Val(projection_id),
                          "ok", <<>>, FALSE, None)
        /\ UNCHANGED next_projection

DeleteProjection ==
    \E projection_id \in DOMAIN projections :
        /\ Becomes(delete_projection(State, projection_id))
        /\ last' = Called("delete_projection", projection_id, "ok", <<>>, FALSE, None)
        /\ UNCHANGED next_projection

\* lists of ProjectedPoint handed to set_cached_coordinates: none, and one
\* for each point of the root layer
StoredResults ==
    {EmptyDict,
     [point_id \in DOMAIN points[1] |->
        [label |-> points[1][point_id].label,
         metadata |-> points[1][point_id].metadata,
         coordinates |-> <<0, 0>>,
         is_virtual |-> points[1][point_id].is_virtual]]}

\* set_cached_coordinates on any projection id ever drawn, or on the next one
SetCachedCoordinates ==
    \E projection_id \in 1..next_projection, results \in StoredResults :
        /\ Becomes(set_cached_coordinates(State, projection_id, results))
        /\ last' = Called("set_cached_coordinates", projection_id, "ok", <<>>,
                          FALSE, None)
        /\ UNCHANGED next_projection

\* one direction vector for the rows of one column of the root layer
OneAxis == [axes |-> <<[type |-> "direction", vector |-> <<2>>]>>]

\* (type, dimensions, parameters) of create_projection: each type with the
\* default of two dimensions and with one or three; PCA also with the
\* components 2 and 3 asked of rows of one column
ShapeInputs ==
    {[type |-> "pca", dimensions |-> 1, parameters |-> EmptyDict],
     [type |-> "pca", dimensions |-> 2, parameters |-> EmptyDict],
     [type |-> "pca", dimensions |-> 2, parameters |-> [components |-> <<2, 3>>]],
     [type |-> "custom_axes", dimensions |-> 2, parameters |-> OneAxis],
     [type |-> "custom_axes", dimensions |-> 3, parameters |-> OneAxis],
     [type |-> "custom_axes", dimensions |-> 3, parameters |-> EmptyDict],
     [type |-> "direct", dimensions |-> 1, parameters |-> EmptyDict],
     [type |-> "direct", dimensions |-> 2, parameters |-> EmptyDict],
     [type |-> "direct", dimensions |-> 3, parameters |-> EmptyDict],
     [type |-> "density", dimensions |-> 2, parameters |-> EmptyDict],
     [type |-> "density", dimensions |-> 3, parameters |-> EmptyDict],
     [type |-> "boxplot", dimensions |-> 2, parameters |-> [dim |-> 5]],
     [type |-> "violin", dimensions |-> 3, parameters |-> EmptyDict]}

\* projections in two dimensions: computed from the vectors alone, and with
\* a jitter
RandomInputs ==
    {[type |-> "direct", dimensions |-> 2, parameters |-> EmptyDict],
     [type |-> "pca", dimensions |-> 2, parameters |-> EmptyDict],
     [type |-> "density", dimensions |-> 2, parameters |-> EmptyDict],
     [type |-> "boxplot", dimensions |-> 2, parameters |-> EmptyDict],
     [type |-> "violin", dimensions |-> 2, parameters |-> EmptyDict]}

\* create_projection on the root layer with a type, a number of dimensions
\* and parameters
CreateTypedProjection(max_projections, inputs) ==
    \E in \in inputs, compute_now \in BOOLEAN, seed \in Seeds :
        /\ next_projection <= max_projections
        /\ Becomes(create_projection(State, next_projection, <<"v">>, in.type,
                                     1, in.dimensions, in.parameters,
                                     compute_now, seed))
        /\ next_projection' = next_projection + 1
        /\ last' = Called("create_projection", next_projection, "ok", <<>>,
                          compute_now, None)

\* PointData of add_point with vectors of one, two and no elements
VectorInputs ==
    {[id |-> 9, vector |-> <<7>>, label |-> <<"one">>,
      metadata |-> EmptyDict, is_virtual |-> FALSE],
     [id |-> 10, vector |-> <<7, 8>>, label |-> <<"two">>,
      metadata |-> EmptyDict, is_virtual |-> FALSE],
     [id |-> 11, vector |-> <<>>, label |-> <<"none">>,
      metadata |-> EmptyDict, is_virtual |-> FALSE]}

\* add_point with a vector of any length
AddVector(max_points) ==
    \E layer_id \in DOMAIN layers, point_data \in VectorInputs :
        /\ layers[layer_id].point_count < max_points
        /\ Becomes(add_point(State, layer_id, point_data))
        /\ last' = Called("add_point", layer_id, "ok", <<>>, FALSE, None)
        /\ UNCHANGED next_projection

\* the rows of the root layer: a right triangle with sides 3, 4, 5
AxesData == {<<<<0, 0>>, <<3, 0>>, <<3, 4>>>>}

\* the direction of a custom axis from point a to point b: vector(b) - vector(a)
Direction(layer_points, a, b) ==
    [type |-> "direction",
     vector |-> [i \in 1..Len(layer_points[a].vector) |->
                    layer_points[b].vector[i] - layer_points[a].vector[i]]]

\* the parameter maps a client builds from the points of a layer: no axes,
\* one axis, two independent axes, the same axis twice, and the direction of
\* a point to itself before an axis
AxesParameters(layer_points) ==
    LET zero == Direction(layer_points, 1, 1)
        v1 == Direction(layer_points, 1, 2)
        v2 == Direction(layer_points, 1, 3)
    IN {EmptyDict, [axes |-> <<v1>>], [axes |-> <<v1, v2>>],
        [axes |-> <<v1, v1>>], [axes |-> <<zero, v2>>]}

\* create_transformation of type custom_axes on the root layer
CreateAxesTransformation(max_transformations) ==
    \E parameters \in AxesParameters(points[1]) :
        LET r == create_transformation(State, <<"t">>, "custom_axes", 1, parameters)
        IN /\ Len(transformations) < max_transformations
           /\ Becomes(r.st)
           /\ last' = Called("create_transformation", Len(transformations) + 1,
                             r.outcome, r.st.applied, FALSE, None)
           /\ UNCHANGED next_projection

\* create_projection of type custom_axes, 2D, on the root layer; an exception
\* of the computation leaves the projection registered (line 52) and uncomputed
CreateAxesProjection(max_projections) ==
    \E parameters \in AxesParameters(points[1]), compute_now \in BOOLEAN,
       seed \in Seeds :
        LET st == create_projection(State, next_projection, <<"v">>,
                        "custom_axes", 1, 2, parameters, compute_now, seed)
        IN /\ next_projection <= max_projections
           /\ Becomes(st)
           /\ next_projection' = next_projection + 1
           /\ last' = Called("create_projection", next_projection,
                             IF compute_now
                                /\ next_projection \notin DOMAIN st.projection_results
                             THEN "raised" ELSE "ok",
                             <<>>, compute_now, None)

\* create_projection of type direct on the root layer; an exception of the
\* computation leaves the projection registered (line 52) and uncomputed
CreateDirectProjection(max_projections) ==
    \E in \in DirectInputs, compute_now \in BOOLEAN, seed \in Seeds :
        LET st == create_projection(State, next_projection, <<"v">>, "direct", 1,
                        in.dimensions, in.parameters, compute_now, seed)
        IN /\ next_projection <= max_projections
           /\ Becomes(st)
           /\ next_projection' = next_projection + 1
           /\ last' = Called("create_projection", next_projection,
                             IF compute_now
                                /\ next_projection \notin DOMAIN st.projection_results
                             THEN "raised" ELSE "ok",
                             <<>>, compute_now, None)

\* POST /scenarios/save. On a store that holds a list of points, points.values()
\* (line 96) raises AttributeError before the file is opened
SaveCurrent ==
    /\ saved' = IF listed = {} THEN Some(save_current(State)) ELSE saved
    /\ last' = Called("save_current", 0, IF listed = {} THEN "ok" ELSE "raised",
                      <<>>, FALSE, None)
    /\ UNCHANGED <<layers, points, transformations, projections,
                   projection_results, computed_with, next_uuid, random,
                   next_projection, readers, writer, listed>>

\* POST /scenarios/load/{filename}: 404 without the file, before anything is
\* cleared
LoadSaved ==
    IF saved = None
    THEN /\ last' = Called("load_saved", 0, "none", <<>>, FALSE, None)
         /\ UNCHANGED <<layers, points, transformations, projections,
                        projection_results, computed_with, next_uuid, random,
                        next_projection, readers, writer, saved, listed>>
    ELSE LET r == load_saved(State, Val(saved))
         IN /\ Stores(r.st)
            /\ listed' = r.listed
            /\ last' = Called("load_saved", 0, r.outcome, <<>>, FALSE, None)
            /\ UNCHANGED <<next_projection, readers, writer, saved>>

\* DataStore.get_points(layer_id) without point ids: list(layer_points.values())
\* raises AttributeError on an entry that is a list
GetPoints ==
    \E layer_id \in DOMAIN layers :
        /\ last' = Called("get_points", layer_id,
                          IF layer_id \in listed THEN "raised" ELSE "ok",
                          <<>>, FALSE,
                          IF layer_id \in listed THEN None
                          ELSE Some(get_points(State, layer_id)))
        /\ UNCHANGED <<layers, points, transformations, projections,
                       projection_results, computed_with, next_uuid, random,
                       next_projection, readers, writer, saved, listed>>

\* a thread that has not called get_projection_coordinates. `invalidated` is
\* history: the cache of the thread's projection was invalidated after the thread
\* computed its results and before it stored them
Idle ==
    [pc |-> "idle", projection_id |-> 0, results |-> None, computed |-> FALSE,
     returned |-> None, invalidated |-> FALSE]

NoReaders == [r \in 1..Readers |-> Idle]

\* get_projection_coordinates is entered with a projection id (line 445)
ReaderCall(r) ==
    \E projection_id \in DOMAIN projections :
        /\ readers[r].pc = "idle"
        /\ readers' = [readers EXCEPT ![r].pc = "check",
                                      ![r].projection_id = projection_id]
        /\ UNCHANGED <<layers, points, transformations, projections,
                       projection_results, computed_with, next_uuid, random,
                       next_projection, last, writer, saved, listed>>

\* _ensure_computed, lines 61-66: the test of the cache and the lookup of the
\* projection
ReaderCheck(r) ==
    /\ readers[r].pc = "check"
    /\ readers' = [readers EXCEPT ![r].pc =
            IF readers[r].projection_id \in DOMAIN projection_results THEN "return"
            ELSE IF readers[r].projection_id \notin DOMAIN projections THEN "return"
            ELSE "compute"]
    /\ UNCHANGED <<layers, points, transformations, projections,
                   projection_results, computed_with, next_uuid, random,
                   next_projection, last, writer, saved, listed>>

\* _ensure_computed, lines 72-73: the computation, into the local `results`
ReaderCompute(r) ==
    LET results == compute_projection(State, projections[readers[r].projection_id])
        stored == ~results.raised /\ results.out # None
                    /\ DOMAIN Val(results.out) # {}
    IN /\ readers[r].pc = "compute"
       /\ readers[r].projection_id \in DOMAIN projections
       /\ readers' = [readers EXCEPT
                        ![r].pc = IF stored THEN "store" ELSE "return",
                        ![r].computed = TRUE,
                        ![r].results = IF stored THEN results.out ELSE None]
       /\ random' = random + DrawnBy(results)
       /\ UNCHANGED <<layers, points, transformations, projections,
                      projection_results, computed_with, next_uuid,
                      next_projection, last, writer, saved, listed>>

\* _ensure_computed, line 74: the local `results` is written into the cache
ReaderStore(r) ==
    LET projection_id == readers[r].projection_id
    IN /\ readers[r].pc = "store"
       /\ projection_id \in DOMAIN projections
       /\ projection_results' =
            [p \in (DOMAIN projection_results) \cup {projection_id} |->
                IF p = projection_id THEN Val(readers[r].results)
                ELSE projection_results[p]]
       /\ computed_with' =
            [p \in (DOMAIN computed_with) \cup {projection_id} |->
                IF p = projection_id
                THEN [layer_id |-> projections[p].layer_id,
                      parameters |-> projections[p].parameters]
                ELSE computed_with[p]]
       /\ readers' = [readers EXCEPT ![r].pc = "return"]
       /\ UNCHANGED <<layers, points, transformations, projections, next_uuid, random,
                      next_projection, last, writer, saved, listed>>

\* get_projection_coordinates, line 451: the cache entry is returned
ReaderReturn(r) ==
    LET projection_id == readers[r].projection_id
        returned == IF projection_id \in DOMAIN projection_results
                    THEN Some(projection_results[projection_id]) ELSE None
    IN /\ readers[r].pc = "return"
       /\ readers' = [readers EXCEPT ![r].pc = "done", ![r].returned = returned]
       /\ last' = Called("get_projection_coordinates", projection_id, "ok", <<>>,
                         readers[r].computed, returned)
       /\ UNCHANGED <<layers, points, transformations, projections,
                      projection_results, computed_with, next_uuid, random,
                      next_projection, writer, saved, listed>>

\* the threads after an invalidation of the caches of `projection_ids` by another
\* thread: a thread between line 72 and line 74 holds results that are older than
\* the invalidation
Invalidated(projection_ids) ==
    [r \in DOMAIN readers |->
        IF readers[r].pc = "store" /\ readers[r].projection_id \in projection_ids
        THEN [readers[r] EXCEPT !.invalidated = TRUE]
        ELSE readers[r]]

\* update_projection with parameters, called while other threads are inside
\* get_projection_coordinates
UpdateProjectionMeanwhile ==
    \E projection_id \in DOMAIN projections, parameters \in ProjectionParameters :
        /\ Stores(update_projection(State, projection_id, None, Some(parameters)))
        /\ readers' = Invalidated({projection_id})
        /\ last' = Called("update_projection", projection_id, "ok", <<>>, FALSE,
                          None)
        /\ UNCHANGED <<next_projection, writer, saved, listed>>

\* invalidate_cache, called while other threads are inside
\* get_projection_coordinates
InvalidateCacheMeanwhile ==
    \E projection_id \in {None} \cup {Some(p) : p \in DOMAIN projections} :
        /\ Stores(invalidate_cache(State, projection_id))
        /\ readers' = Invalidated(IF projection_id = None THEN DOMAIN projections
                                  ELSE {Val(projection_id)})
        /\ last' = Called("invalidate_cache",
                          IF projection_id = None THEN 0 ELSE Val(projection_id),
                          "ok", <<>>, FALSE, None)
        /\ UNCHANGED <<next_projection, writer, saved, listed>>

\* update_transformation, called while other threads are inside
\* get_projection_coordinates: the propagation rebinds the projections of the
\* replaced layers and drops their cache entries (_update_layer_reference)
UpdateTransformationMeanwhile(max_layers, inputs) ==
    \E tid \in 1..Len(transformations), in \in inputs :
        LET Rebound(r) ==
                /\ r.st.next_uuid <= max_layers + 1
                /\ Stores(r.st)
                /\ readers' = Invalidated(
                        {p \in DOMAIN projections :
                            /\ p \in DOMAIN r.st.projections
                            /\ r.st.projections[p].layer_id
                                    # projections[p].layer_id})
                /\ last' = Called("update_transformation", tid, r.outcome,
                                  r.st.applied, FALSE, None)
                /\ UNCHANGED <<next_projection, writer, saved, listed>>
        IN Rebound(update_transformation(State, tid, None, in.type, in.parameters))

\* a thread that is not inside update_transformation
NoCall == [old |-> 0, new |-> 0]
NoWriter ==
    [pc |-> "idle", tid |-> 0, source_layer |-> [id |-> 0, name |-> <<>>],
     old_target_id |-> 0, old_target_name |-> <<>>, call |-> NoCall,
     stack |-> <<>>, applied |-> <<>>]

\* update_transformation with a new type or parameters, lines 377-406: the
\* lookups, the new type and parameters, and the deletion of the old target
WriterCall(max_layers, inputs) ==
    \E tid \in 1..Len(transformations), in \in inputs :
        LET source_id == transformations[tid].source_layer_id
            s2 == [State EXCEPT
                    !.transformations[tid].type =
                        IF in.type # None THEN Val(in.type) ELSE @,
                    !.transformations[tid].parameters =
                        IF in.parameters # None THEN Val(in.parameters) ELSE @]
            old_target_id == s2.transformations[tid].target_layer_id
        IN /\ writer.pc = "idle"
           /\ next_uuid + Len(transformations) <= max_layers + 1
           /\ IF source_id \notin DOMAIN layers
              THEN /\ Stores(State)
                   /\ writer' = writer
                   /\ last' = Called("update_transformation", tid, "none", <<>>,
                                     FALSE, None)
              ELSE /\ Stores(delete_layer(s2, old_target_id))
                   /\ writer' = [NoWriter EXCEPT
                        !.pc = "apply",
                        !.tid = tid,
                        !.source_layer = [id |-> source_id,
                                          name |-> layers[source_id].name],
                        !.old_target_id = old_target_id,
                        !.old_target_name = NameOf(s2, old_target_id)]
                   /\ UNCHANGED last
           /\ UNCHANGED <<readers, saved, listed, next_projection>>

\* update_transformation, lines 409-413: the transformation is reapplied and
\* given its new target
WriterApply(cap) ==
    /\ writer.pc = "apply"
    /\ \E r \in {apply_transformation(State, writer.tid,
                        transformations[writer.tid], writer.source_layer,
                        writer.old_target_name)} :
        /\ r.st.next_uuid <= cap
        /\ IF r.outcome # "ok"
           THEN /\ Stores(r.st)
                /\ writer' = NoWriter
                /\ last' = Called("update_transformation", writer.tid, r.outcome,
                                  r.st.applied, FALSE, None)
           ELSE /\ Stores([r.st EXCEPT
                            !.transformations[writer.tid].target_layer_id = r.target])
                /\ writer' = [writer EXCEPT
                                 !.pc = "enter",
                                 !.call = [old |-> writer.old_target_id,
                                           new |-> r.target],
                                 !.applied = r.st.applied]
                /\ UNCHANGED last
    /\ UNCHANGED <<readers, saved, listed, next_projection>>

\* _propagate_downstream, lines 424-432: the projections are rebound and the
\* list `downstream` is built
WriterEnter ==
    LET s1 == update_layer_reference(State, writer.call.old, writer.call.new)
    IN /\ writer.pc = "enter"
       /\ Stores(s1)
       /\ writer' = [writer EXCEPT
                        !.pc = "loop",
                        !.call = NoCall,
                        !.stack = <<[downstream |-> Downstream(s1, writer.call.old),
                                     new_layer_id |-> writer.call.new]>> \o @]
       /\ last' = Called("update_layer_reference", writer.call.old, "ok", <<>>,
                         FALSE, Some(writer.call.new))
       /\ UNCHANGED <<readers, saved, listed, next_projection>>

\* a slip of line 459: the recursion starts again from the layer it is in
PropagateBodyFromSource(st, t, new_layer_id) ==
    LET s1 == [st EXCEPT !.transformations[t].source_layer_id = new_layer_id]
    IN IF new_layer_id \notin DOMAIN s1.layers
       THEN [st |-> s1, outcome |-> "continue", call |-> NoCall]
       ELSE LET new_source == [id |-> new_layer_id,
                               name |-> s1.layers[new_layer_id].name]
                old_target_id == s1.transformations[t].target_layer_id
                old_target_name == NameOf(s1, old_target_id)
                s2 == delete_layer(s1, old_target_id)
                Applied(r) ==
                  IF r.outcome # "ok"
                  THEN [st |-> r.st, outcome |-> r.outcome, call |-> NoCall]
                  ELSE [st |-> [r.st EXCEPT !.transformations[t].target_layer_id = r.target],
                        outcome |-> "ok",
                        call |-> [old |-> new_layer_id, new |-> new_layer_id]]
            IN Applied(apply_transformation(s2, t, s2.transformations[t],
                                            new_source, old_target_name))

\* the body of the loop of lines 434-459 up to the recursive call. Result:
\* [st, outcome, call]; call holds the arguments of the recursive call
PropagateBody(st, t, new_layer_id) ==
    LET s1 == [st EXCEPT !.transformations[t].source_layer_id = new_layer_id]
    IN IF new_layer_id \notin DOMAIN s1.layers
       THEN [st |-> s1, outcome |-> "continue", call |-> NoCall]
       ELSE LET new_source == [id |-> new_layer_id,
                               name |-> s1.layers[new_layer_id].name]
                old_target_id == s1.transformations[t].target_layer_id
                old_target_name == NameOf(s1, old_target_id)
                s2 == delete_layer(s1, old_target_id)
                Applied(r) ==
                  IF r.outcome # "ok"
                  THEN [st |-> r.st, outcome |-> r.outcome, call |-> NoCall]
                  ELSE [st |-> [r.st EXCEPT !.transformations[t].target_layer_id = r.target],
                        outcome |-> "ok",
                        call |-> [old |-> old_target_id, new |-> r.target]]
            IN Applied(apply_transformation(s2, t, s2.transformations[t],
                                            new_source, old_target_name))

\* one iteration of the loop of lines 434-459, as far as the recursive call
WriterLoop(cap) ==
    /\ writer.pc = "loop"
    /\ Head(writer.stack).downstream # <<>>
    /\ \E b \in {PropagateBody(State, Head(Head(writer.stack).downstream),
                                Head(writer.stack).new_layer_id)} :
        LET rest == <<[Head(writer.stack) EXCEPT !.downstream = Tail(@)]>>
                        \o Tail(writer.stack)
        IN /\ b.st.next_uuid <= cap
           /\ Stores(b.st)
           /\ CASE b.outcome = "raised" ->
                    /\ writer' = NoWriter
                    /\ last' = Called("update_transformation", writer.tid, "raised",
                                      writer.applied \o b.st.applied, FALSE, None)
                [] b.outcome = "ok" ->
                    /\ writer' = [writer EXCEPT !.pc = "enter", !.call = b.call,
                                                !.stack = rest,
                                                !.applied = @ \o b.st.applied]
                    /\ UNCHANGED last
                [] OTHER ->
                    /\ writer' = [writer EXCEPT !.stack = rest,
                                                !.applied = @ \o b.st.applied]
                    /\ UNCHANGED last
    /\ UNCHANGED <<readers, saved, listed, next_projection>>

\* the loop of lines 434-459 is through its list: _propagate_downstream
\* returns, to the loop that called it or to update_transformation (line 419)
WriterReturn ==
    /\ writer.pc = "loop"
    /\ Head(writer.stack).downstream = <<>>
    /\ IF Len(writer.stack) = 1
       THEN /\ writer' = NoWriter
            /\ last' = Called("update_transformation", writer.tid, "ok",
                              writer.applied, FALSE, None)
       ELSE /\ writer' = [writer EXCEPT !.stack = Tail(@)]
            /\ UNCHANGED last
    /\ UNCHANGED <<layers, points, transformations, projections,
                   projection_results, computed_with, next_uuid, random,
                   next_projection, readers, saved, listed>>

\* the store and the engines as constructed, before any call
Empty ==
    [layers |-> EmptyDict, points |-> EmptyDict, transformations |-> <<>>,
     projections |-> EmptyDict, projection_results |-> EmptyDict,
     computed_with |-> EmptyDict, next_uuid |-> 1, random |-> 0,
     applied |-> <<>>, raised |-> FALSE]

\* the program with one generated root layer "A" of two points in one dimension
Init ==
    LET st == generate_synthetic_data(Empty, 2, 1, <<"A">>)
    IN /\ layers = st.layers
       /\ points = st.points
       /\ transformations = <<>>
       /\ projections = EmptyDict
       /\ projection_results = EmptyDict
       /\ computed_with = EmptyDict
       /\ next_uuid = st.next_uuid
       /\ next_projection = 1
       /\ last = Called("generate_synthetic_data", 1, "ok", <<>>, FALSE, None)
       /\ readers = NoReaders
       /\ writer = NoWriter
       /\ saved = None
       /\ listed = {}
       /\ random = 0

\* the program with one generated root layer "A" of two points, in one of the
\* dimensionalities up to max_dims
InitOfDims(max_dims) ==
    \E dimensionality \in 1..max_dims :
        LET st == generate_synthetic_data(Empty, 2, dimensionality, <<"A">>)
        IN /\ layers = st.layers
           /\ points = st.points
           /\ transformations = <<>>
           /\ projections = EmptyDict
           /\ projection_results = EmptyDict
           /\ computed_with = EmptyDict
           /\ next_uuid = st.next_uuid
           /\ next_projection = 1
           /\ last = Called("generate_synthetic_data", 1, "ok", <<>>, FALSE, None)
           /\ readers = NoReaders
           /\ writer = NoWriter
           /\ saved = None
           /\ listed = {}
           /\ random = 0

Next ==
    \/ CreateTransformation(MaxLayers, MaxTransformations, TransformationInputs)
    \/ RenameTransformation
    \/ UpdateTransformation(MaxLayers, RecomputeInputs)

Spec == Init /\ [][Next]_vars

NextView ==
    \/ CreateTransformation(ViewLayers, ViewTransformations, ViewTransformationInputs)
    \/ UpdateTransformation(ViewLayers, ViewRecomputeInputs)
    \/ CreateProjection(ViewProjections, {FALSE})
    \/ GetProjectionCoordinates

SpecView == Init /\ [][NextView]_vars

NextCache ==
    \/ CreateTransformation(CacheLayers, CacheLayers, ViewTransformationInputs)
    \/ UpdateTransformation(CacheLayers, CacheRecomputeInputs)
    \/ CreateProjection(CacheProjections, BOOLEAN)
    \/ GetProjectionCoordinates
    \/ UpdateProjection
    \/ InvalidateCache
    \/ DeleteProjection

SpecCache == Init /\ [][NextCache]_vars

NextRename ==
    \/ CreateTransformation(RenameLayers, RenameLayers, ViewTransformationInputs)
    \/ RenameTransformation
    \/ CreateProjection(RenameProjections, BOOLEAN)
    \/ GetProjectionCoordinates

SpecRename == Init /\ [][NextRename]_vars

NextLazy ==
    \/ CreateLayer(LazyLayers)
    \/ AddPoint(LazyPoints)
    \/ CreateProjectionOfType(LazyProjections, ProjectionTypes)
    \/ GetProjectionCoordinates

SpecLazy == Init /\ [][NextLazy]_vars

NextDelete ==
    \/ CreateTransformation(DeleteLayers, DeleteLayers, ViewTransformationInputs)
    \/ UpdateTransformation(DeleteLayers, CacheRecomputeInputs)
    \/ CreateProjection(DeleteProjections, BOOLEAN)
    \/ ReadCoordinates
    \/ UpdateAnyProjection
    \/ DeleteProjection

SpecDelete == Init /\ [][NextDelete]_vars

NextBulk ==
    \/ CreateLayer(BulkLayers)
    \/ AddPoint(BulkPoints)
    \/ AddPointsBulk(BulkPoints)

SpecBulk == Init /\ [][NextBulk]_vars

NextAbsent ==
    \/ CreateLayer(AbsentLayers)
    \/ CreateTransformationFrom(AbsentLayers, AbsentTransformations, TransformationInputs)
    \/ UpdateTransformation(AbsentLayers, ViewRecomputeInputs)

SpecAbsent == Init /\ [][NextAbsent]_vars

NextScaling ==
    \/ CreateTransformation(ScalingLayers, ScalingLayers, ScalingInputs)
    \/ UpdateTransformation(ScalingLayers, ScalingRecomputeInputs)

SpecScaling == InitOfDims(ScalingDims) /\ [][NextScaling]_vars

NextReaders ==
    \/ CreateTransformation(ReaderLayers, ReaderLayers, ViewTransformationInputs)
    \/ CreateProjection(ReaderProjections, {FALSE})
    \/ \E r \in 1..Readers : ReaderCall(r)
    \/ \E r \in 1..Readers : ReaderCheck(r)
    \/ \E r \in 1..Readers : ReaderCompute(r)
    \/ \E r \in 1..Readers : ReaderStore(r)
    \/ \E r \in 1..Readers : ReaderReturn(r)

SpecReaders == Init /\ [][NextReaders]_vars

NextRace ==
    \/ CreateTransformation(RaceLayers, RaceTransformations, ViewTransformationInputs)
    \/ CreateProjection(RaceProjections, {FALSE})
    \/ \E r \in 1..Readers : ReaderCall(r)
    \/ \E r \in 1..Readers : ReaderCheck(r)
    \/ \E r \in 1..Readers : ReaderCompute(r)
    \/ \E r \in 1..Readers : ReaderStore(r)
    \/ \E r \in 1..Readers : ReaderReturn(r)
    \/ UpdateProjectionMeanwhile
    \/ InvalidateCacheMeanwhile
    \/ UpdateTransformationMeanwhile(RaceLayers, ViewRecomputeInputs)

SpecRace == Init /\ [][NextRace]_vars

NextFailing ==
    \/ CreateTransformation(FailingLayers, FailingTransformations,
                            ViewTransformationInputs)
    \/ UpdateTransformationNamed(FailingLayers, {None} \cup
                                    {Some(n) : n \in NewTransformationNames},
                                 ViewRecomputeInputs)

SpecFailing == Init /\ [][NextFailing]_vars

NextWriter ==
    \/ CreateTransformation(WriterLayers, WriterTransformations, ViewTransformationInputs)
    \/ CreateProjection(WriterProjections, BOOLEAN)
    \/ GetProjectionCoordinates
    \/ WriterCall(WriterLayers, CacheRecomputeInputs)
    \/ WriterApply(WriterLayers + WriterTransformations + 1)
    \/ WriterEnter
    \/ WriterLoop(WriterLayers + WriterTransformations + 1)
    \/ WriterReturn

SpecWriter == Init /\ [][NextWriter]_vars

NextPropagate ==
    \/ CreateTransformation(PropagateLayers, PropagateTransformations, ViewTransformationInputs)
    \/ WriterCall(PropagateLayers, PropagateRecomputeInputs)
    \/ WriterApply(PropagateLayers + PropagateTransformations + 1)
    \/ WriterEnter
    \/ WriterLoop(PropagateLayers + PropagateTransformations + 1)
    \/ WriterReturn

\* the steps of the thread inside update_transformation
WriterStep ==
    \/ WriterApply(PropagateLayers + PropagateTransformations + 1)
    \/ WriterEnter
    \/ WriterLoop(PropagateLayers + PropagateTransformations + 1)
    \/ WriterReturn

\* the thread inside update_transformation keeps running until the call returns
SpecPropagate == Init /\ [][NextPropagate]_vars /\ WF_vars(WriterStep)

NextRebind ==
    \/ CreateTransformation(RebindLayers, RebindTransformations, ViewTransformationInputs)
    \/ CreateProjection(RebindProjections, BOOLEAN)
    \/ WriterCall(RebindLayers, CacheRecomputeInputs)
    \/ WriterApply(RebindLayers + RebindTransformations + 1)
    \/ WriterEnter
    \/ WriterLoop(RebindLayers + RebindTransformations + 1)
    \/ WriterReturn

SpecRebind == Init /\ [][NextRebind]_vars

NextBranch ==
    \/ CreateTransformation(BranchLayers, BranchTransformations, BranchInputs)
    \/ UpdateTransformation(BranchLayers, BranchRecomputeInputs)

SpecBranch == Init /\ [][NextBranch]_vars

\* the program with one root layer "A" that create_layer made and
\* add_points_bulk filled with the rows of a dataset
InitOfRows(data) ==
    \E rows \in data :
        LET s1 == create_layer(Empty, <<"A">>, Len(rows[1]), None)
            st == add_points_bulk(s1, 1,
                    [i \in 1..Len(rows) |->
                        [id |-> i, vector |-> rows[i], label |-> <<"point", i - 1>>,
                         metadata |-> EmptyDict, is_virtual |-> FALSE]])
        IN /\ layers = st.layers
           /\ points = st.points
           /\ transformations = <<>>
           /\ projections = EmptyDict
           /\ projection_results = EmptyDict
           /\ computed_with = EmptyDict
           /\ next_uuid = st.next_uuid
           /\ next_projection = 1
           /\ last = Called("add_points_bulk", 1, "ok", <<>>, FALSE, None)
           /\ readers = NoReaders
           /\ writer = NoWriter
           /\ saved = None
           /\ listed = {}
           /\ random = 0

NextAffine ==
    \/ CreateTransformation(AffineLayers, AffineTransformations, AffineInputs)
    \/ UpdateTransformation(AffineLayers, AffineRecomputeInputs)

SpecAffine == Init /\ [][NextAffine]_vars

\* the graph is built by calls made on a store whose point entries are dicts
NextScenario ==
    \/ listed = {} /\ CreateTransformation(ScenarioLayers, ScenarioTransformations,
                                            ViewTransformationInputs)
    \/ listed = {} /\ CreateProjection(ScenarioProjections, BOOLEAN)
    \/ SaveCurrent
    \/ LoadSaved
    \/ GetPoints

SpecScenario == Init /\ [][NextScenario]_vars

NextDirect ==
    \/ CreateDirectProjection(DirectProjections)
    \/ GetProjectionCoordinates

SpecDirect == InitOfDims(DirectDims) /\ [][NextDirect]_vars

NextAxes ==
    \/ CreateAxesTransformation(AxesTransformations)
    \/ CreateAxesProjection(AxesProjections)
    \/ GetProjectionCoordinates

SpecAxes == InitOfRows(AxesData) /\ [][NextAxes]_vars

NextStore ==
    \/ AddPoint(StorePoints)
    \/ CreateTransformation(StoreLayers, StoreLayers, ViewTransformationInputs)
    \/ UpdateTransformation(StoreLayers, CacheRecomputeInputs)

SpecStore == Init /\ [][NextStore]_vars

NextStored ==
    \/ CreateProjection(StoredProjections, BOOLEAN)
    \/ ReadCoordinates
    \/ SetCachedCoordinates
    \/ InvalidateCache
    \/ DeleteProjection

SpecStored == Init /\ [][NextStored]_vars

NextStale ==
    \/ AddPoint(StalePoints)
    \/ CreateProjection(StaleProjections, BOOLEAN)
    \/ GetProjectionCoordinates

SpecStale == Init /\ [][NextStale]_vars

NextShape ==
    \/ CreateTypedProjection(ShapeProjections, ShapeInputs)
    \/ GetProjectionCoordinates

SpecShape == Init /\ [][NextShape]_vars

NextRandom ==
    \/ CreateTypedProjection(RandomProjections, RandomInputs)
    \/ random < RandomDraws /\ GetProjectionCoordinates
    \/ InvalidateCache

SpecRandom == Init /\ [][NextRandom]_vars

NextWidth ==
    \/ CreateLayer(WidthLayers)
    \/ AddVector(WidthPoints)

SpecWidth == Init /\ [][NextWidth]_vars

-----------------------------------------------------------------------------
(* Vocabulary of the properties *)

Range(seq) == {seq[i] : i \in 1..Len(seq)}
Count(seq, x) == Cardinality({i \in 1..Len(seq) : seq[i] = x})

\* the transformations reachable from those of S through source -> target references
RECURSIVE ClosureFrom(_, _)
ClosureFrom(trs, S) ==
    LET targets == {trs[t].target_layer_id : t \in S}
        more == S \cup {t \in 1..Len(trs) : trs[t].source_layer_id \in targets}
    IN IF more = S THEN S ELSE ClosureFrom(trs, more)

\* the edited transformation and everything downstream of its target layer
DownstreamClosure(trs, tid) == ClosureFrom(trs, {tid})

\* the step is an update_transformation call with a new type or parameters
\* that returned the transformation
Recomputed == last'.op = "update_transformation" /\ last'.outcome = "ok"

\* the step is an update_transformation call with a new type or parameters,
\* whatever came of it
Edited == last'.op = "update_transformation"

\* the layers that are the targets of the transformations of S
TargetsOf(trs, S) == {trs[t].target_layer_id : t \in S}

\* the projection and its cache entry are what they were before the step
SameView(p) ==
    /\ p \in DOMAIN projections'
    /\ projections'[p] = projections[p]
    /\ (p \in DOMAIN projection_results') = (p \in DOMAIN projection_results)
    /\ p \in DOMAIN projection_results =>
            projection_results'[p] = projection_results[p]

\* the layers reachable from those of S along source -> target references
RECURSIVE LayersFrom(_, _)
LayersFrom(trs, S) ==
    LET more == S \cup {trs[t].target_layer_id :
                            t \in {u \in 1..Len(trs) : trs[u].source_layer_id \in S}}
    IN IF more = S THEN S ELSE LayersFrom(trs, more)

\* the vectors stored under a layer, as point id -> vector
VectorsOf(pts, layer_id) == [p \in DOMAIN pts[layer_id] |-> pts[layer_id][p].vector]

-----------------------------------------------------------------------------
(* C1 - C10 *)

\* C1: after a successful update_transformation(T) with a new type or
\* parameters, T and every transformation downstream of T's old target have
\* been reapplied exactly once, and nothing else has; each ends with an
\* existing target layer whose id is neither its old target id nor any layer
\* id drawn before the call.
C1_ReappliedOnce ==
    [][Recomputed =>
        LET closure == DownstreamClosure(transformations, last'.id)
        IN /\ Range(last'.applied) = closure
           /\ \A t \in closure :
                /\ Count(last'.applied, t) = 1
                /\ transformations'[t].target_layer_id # transformations[t].target_layer_id
                /\ transformations'[t].target_layer_id \notin 1..(next_uuid - 1)
                /\ transformations'[t].target_layer_id \in DOMAIN layers']_vars

\* an edit of a transformation with a downstream transformation has returned
C1_Witness ==
    /\ last.op = "update_transformation"
    /\ last.outcome = "ok"
    /\ Len(last.applied) >= 2
    /\ last.applied[1] = last.id

\* C3: after a successful update_transformation, every transformation of the
\* downstream closure has a target layer whose vectors are its function applied
\* to the vectors of the layer its source reference now points to.
C3_DepthFirst ==
    [][Recomputed =>
        \A t \in DownstreamClosure(transformations, last'.id) :
            LET tr == transformations'[t]
            IN /\ tr.source_layer_id \in DOMAIN layers'
               /\ tr.target_layer_id \in DOMAIN layers'
               /\ VectorsOf(points', tr.target_layer_id) =
                    transform_vectors(tr.type, tr.parameters,
                        VectorsOf(points', tr.source_layer_id)).out]_vars

\* an edit has changed the vectors of a layer two transformations below the
\* edited transformation's source
C3_Witness ==
    /\ last.op = "update_transformation"
    /\ last.outcome = "ok"
    /\ \E t \in Range(last.applied) :
        /\ t # last.id
        /\ transformations[t].source_layer_id = transformations[last.id].target_layer_id
        /\ \E p \in DOMAIN points[transformations[t].target_layer_id] :
                points[transformations[t].target_layer_id][p].vector # <<0>>

\* C6: every registered transformation's target layer reference refers to a
\* layer that exists in the store.
C6_TargetExists ==
    \A t \in 1..Len(transformations) :
        transformations[t].target_layer_id \in DOMAIN layers

\* C7: a successful update_transformation with a new type or parameters gives
\* the transformation a new target id, the old target layer is gone, and the
\* new target layer of every recomputed transformation carries the name of the
\* layer it replaces.
C7_ReplacedKeepsName ==
    [][Recomputed =>
        /\ transformations'[last'.id].target_layer_id
                # transformations[last'.id].target_layer_id
        /\ \A t \in DownstreamClosure(transformations, last'.id) :
            LET old == transformations[t].target_layer_id
                new == transformations'[t].target_layer_id
            IN /\ old \notin DOMAIN layers'
               /\ new \in DOMAIN layers'
               /\ old \in DOMAIN layers => layers'[new].name = layers[old].name]_vars

\* a renamed transformation has been edited and its target layer replaced
C7_Witness ==
    /\ last.op = "update_transformation"
    /\ last.outcome = "ok"
    /\ transformations[last.id].name = <<"r">>
    /\ layers[transformations[last.id].target_layer_id].name = <<"A", "_", "t">>

\* C2: update_transformation(T), whatever it is given and whatever comes of
\* it, leaves unchanged every layer that is not the target of T or of a
\* transformation downstream of T (with its points), every transformation
\* outside that closure, and every projection, with its cache entry, whose
\* layer is not one of those targets.
C2_Frame ==
    [][last'.op \in {"update_transformation", "rename_transformation"} =>
        LET closure == DownstreamClosure(transformations, last'.id)
            reachable == TargetsOf(transformations, closure)
        IN /\ \A l \in (DOMAIN layers) \ reachable :
                /\ l \in DOMAIN layers'
                /\ layers'[l] = layers[l]
                /\ points'[l] = points[l]
           /\ Len(transformations') = Len(transformations)
           /\ \A t \in (1..Len(transformations)) \ closure :
                transformations'[t] = transformations[t]
           /\ \A p \in DOMAIN projections :
                projections[p].layer_id \notin reachable => SameView(p)]_vars

\* an edit has replaced one branch while a sibling transformation was not
\* reapplied and a projection outside the edited branch kept its cache entry
C2_Witness ==
    /\ last.op = "update_transformation"
    /\ last.outcome = "ok"
    /\ \E t \in 1..Len(transformations) : t \notin Range(last.applied)
    /\ \E p \in DOMAIN projection_results :
            projections[p].layer_id \in DOMAIN layers

C5_CacheCurrent ==
    \A p \in DOMAIN projection_results :
        /\ p \in DOMAIN projections
        /\ p \in DOMAIN computed_with
        /\ computed_with[p] = [layer_id |-> projections[p].layer_id,
                               parameters |-> projections[p].parameters]

\* a projection whose parameters were changed has been computed again, under
\* the new parameters
C5_Witness ==
    /\ last.op = "get_projection_coordinates"
    /\ last.computed
    /\ last.id \in DOMAIN projection_results
    /\ projections[last.id].parameters = [dim_x |-> 1]

\* C8: update_transformation with only a new name changes the transformation's
\* name and nothing else: layers, points, the other fields of the
\* transformation, the other transformations, the projections and the cache
\* entries are what they were.
C8_RenameOnly ==
    [][last'.op = "rename_transformation" =>
        /\ last'.outcome = "ok"
        /\ last'.applied = <<>>
        /\ layers' = layers
        /\ points' = points
        /\ projections' = projections
        /\ projection_results' = projection_results
        /\ \E name \in NewTransformationNames :
                transformations' = [transformations EXCEPT ![last'.id].name = name]]_vars

\* a transformation with a computed projection on its target layer is renamed
C8_Witness ==
    /\ last.op = "rename_transformation"
    /\ transformations[last.id].name \in NewTransformationNames
    /\ \E p \in DOMAIN projection_results :
            projections[p].layer_id = transformations[last.id].target_layer_id

\* C9: after a successful create_transformation or reapplication, the target
\* layer has the point ids of the source layer, the point_count of the source
\* layer, and for every point id the label, metadata and is_virtual flag of
\* the source point.
C9_PointsCarried ==
    [][(last'.op \in {"create_transformation", "update_transformation"}
            /\ last'.outcome = "ok") =>
        \A t \in Range(last'.applied) :
            LET source == transformations'[t].source_layer_id
                target == transformations'[t].target_layer_id
            IN /\ DOMAIN points'[target] = DOMAIN points'[source]
               /\ layers'[target].point_count = layers'[source].point_count
               /\ \A p \in DOMAIN points'[source] :
                    /\ points'[target][p].label = points'[source][p].label
                    /\ points'[target][p].metadata = points'[source][p].metadata
                    /\ points'[target][p].is_virtual = points'[source][p].is_virtual]_vars

\* C10: a get_projection_coordinates call on a projection that has a cache
\* entry does not invoke the computation, returns the cached list and leaves
\* the cache as it was.
C10_ComputedOnce ==
    [][(last'.op = "get_projection_coordinates"
            /\ last'.id \in DOMAIN projection_results) =>
        /\ ~last'.computed
        /\ last'.returned = Some(projection_results[last'.id])
        /\ projection_results' = projection_results]_vars

\* a read has returned coordinates without computing them
C10_Witness ==
    /\ last.op = "get_projection_coordinates"
    /\ ~last.computed
    /\ last.returned # None
    /\ last.id \in DOMAIN projection_results

\* C11: update_projection with a parameter mapping, an empty one included,
\* stores the mapping and removes the projection's cache entry, and a read of a
\* projection without a cache entry invokes the computation; update_projection
\* with only a name leaves the cache, the parameters and the layer reference
\* as they were.
C11_ParametersClear ==
    [][/\ last'.op = "update_projection" =>
            /\ last'.id \notin DOMAIN projection_results'
            /\ projections'[last'.id].parameters \in ProjectionParameters
            /\ projections'[last'.id].layer_id = projections[last'.id].layer_id
       /\ last'.op = "rename_projection" =>
            /\ projection_results' = projection_results
            /\ projections'[last'.id].parameters = projections[last'.id].parameters
            /\ projections'[last'.id].layer_id = projections[last'.id].layer_id
       /\ (last'.op = "get_projection_coordinates"
                /\ last'.id \notin DOMAIN projection_results) =>
            last'.computed]_vars

\* a projection has just been given the empty parameter mapping and has no
\* cache entry
C11_Witness ==
    /\ last.op = "update_projection"
    /\ projections[last.id].parameters = EmptyDict
    /\ last.id \notin DOMAIN projection_results

\* C12: a read of an uncomputed projection whose layer has no points, or whose
\* type has no algorithm, returns the absent result without raising, creates
\* no cache entry and leaves the projection registered and unchanged.
C12_FailureStaysUncomputed ==
    [][(/\ last'.op = "get_projection_coordinates"
        /\ last'.id \in DOMAIN projections
        /\ last'.id \notin DOMAIN projection_results
        /\ \/ get_points(State, projections[last'.id].layer_id) = EmptyDict
           \/ projections[last'.id].type = "unknown") =>
        /\ last'.outcome = "ok"
        /\ last'.returned = None
        /\ projection_results' = projection_results
        /\ projections' = projections]_vars

\* a projection of a layer without points has been read, and one of an unknown
\* type on a layer with points is registered without a cache entry
C12_Witness ==
    /\ last.op = "get_projection_coordinates"
    /\ last.computed
    /\ last.returned = None
    /\ points[projections[last.id].layer_id] = EmptyDict
    /\ \E p \in DOMAIN projections :
        /\ projections[p].type = "unknown"
        /\ points[projections[p].layer_id] # EmptyDict
        /\ p \notin DOMAIN projection_results

C14_DeleteTerminal ==
    [][/\ last'.op = "delete_projection" =>
            /\ last'.id \notin DOMAIN projections'
            /\ last'.id \notin DOMAIN projection_results'
       /\ \A p \in 1..(next_projection - 1) :
            p \notin DOMAIN projections =>
                /\ p \notin DOMAIN projections'
                /\ p \notin DOMAIN projection_results'
       /\ (last'.op = "get_projection_coordinates"
                /\ last'.id \notin DOMAIN projections) =>
            last'.returned = None]_vars

\* the id of a deleted projection has been read
C14_Witness ==
    /\ last.op = "get_projection_coordinates"
    /\ last.id \notin DOMAIN projections
    /\ last.returned = None

\* C15: every layer's point_count equals the number of points stored under
\* the layer.
C15_PointCount ==
    \A l \in DOMAIN layers :
        layers[l].point_count = Cardinality(DOMAIN points[l])

\* C16: an add_points_bulk call either stores every point of its batch and
\* raises point_count by the batch size, or stores no point and leaves
\* point_count unchanged.
C16_BulkAtomic ==
    [][last'.op = "add_points_bulk" =>
        \/ layers' = layers /\ points' = points
        \/ \E batch \in BatchInputs :
            /\ \A i \in 1..Len(batch) : Admissible(batch[i])
            /\ last'.id \in DOMAIN layers
            /\ points' = [points EXCEPT ![last'.id] = StoreAll(@, batch)]
            /\ layers' = [layers EXCEPT
                            ![last'.id].point_count = @ + Len(batch)]]_vars

\* C17: the layer/transformation graph is acyclic: no transformation's source
\* layer is its own target layer or reachable from it.
C17_Acyclic ==
    \A t \in 1..Len(transformations) :
        transformations[t].source_layer_id \notin
            LayersFrom(transformations, {transformations[t].target_layer_id})

\* an edit has been propagated through a chain of two transformations
C17_Witness ==
    /\ last.op = "update_transformation"
    /\ \E t, u \in Range(last.applied) :
        /\ t # u
        /\ transformations[u].source_layer_id = transformations[t].target_layer_id
        /\ transformations[u].target_layer_id \in DOMAIN layers

\* C18: create_transformation registers a transformation only for a source
\* layer that exists and has points; otherwise it returns the absent result,
\* and a call that returns the absent result changes no state.
C18_AbsentSource ==
    [][last'.op = "create_transformation" =>
        /\ last'.outcome \in {"ok", "none"}
        /\ last'.outcome = "ok" =>
            /\ Len(transformations') = Len(transformations) + 1
            /\ transformations'[last'.id].source_layer_id \in DOMAIN layers
            /\ get_points(State, transformations'[last'.id].source_layer_id) # EmptyDict
        /\ last'.outcome = "none" =>
            /\ transformations' = transformations
            /\ layers' = layers
            /\ points' = points
            /\ next_uuid' = next_uuid
            /\ projections' = projections
            /\ projection_results' = projection_results]_vars

\* create_transformation has returned the absent result while the store holds
\* a layer without points and the id of a deleted layer is known
C18_Witness ==
    /\ last.op = "create_transformation"
    /\ last.outcome = "none"
    /\ \E l \in DOMAIN layers : points[l] = EmptyDict
    /\ \E l \in 1..(next_uuid - 1) : l \notin DOMAIN layers

\* every scaling applied by the step has multiplied coordinate i of every
\* source vector by Factor(f, D, i) when it has a factor list f, and by 2 when
\* it has none; Defined(f, D) says the factor list has the factors asked of it
ScalingBy(Defined(_, _), Factor(_, _, _)) ==
    (last'.op \in {"create_transformation", "update_transformation"}
        /\ last'.outcome = "ok") =>
    \A t \in Range(last'.applied) :
        LET tr == transformations'[t]
            source == points'[tr.source_layer_id]
            target == points'[tr.target_layer_id]
            D == layers'[tr.source_layer_id].dimensionality
        IN tr.type = "scaling" =>
            /\ DOMAIN target = DOMAIN source
            /\ \A p \in DOMAIN source :
                LET v == source[p].vector
                    w == target[p].vector
                IN /\ Len(w) = D
                   /\ IF "scale_factors" \notin DOMAIN tr.parameters
                      THEN \A i \in 1..D : w[i] = 2 * v[i]
                      ELSE LET f == tr.parameters["scale_factors"]
                           IN /\ Defined(f, D)
                              /\ \A i \in 1..D : w[i] = v[i] * Factor(f, D, i)

\* C19 as stated: a scaling multiplies coordinate i by factor i of its factor
\* list, by 2 when it has no factor list, and by the first element of the list
\* when the list's length differs from the dimensionality.
C19_ScalingFirstElement ==
    [][ScalingBy(LAMBDA f, D : Len(f) = D \/ Len(f) >= 1,
                 LAMBDA f, D, i : IF Len(f) = D THEN f[i] ELSE f[1])]_vars

\* C19 amended: as stated for a factor list that is not empty; an empty factor
\* list, whose length differs from every dimensionality and which has no first
\* element, multiplies every coordinate by 1.
C19_ScalingFirstElementOrOne ==
    [][ScalingBy(LAMBDA f, D : TRUE,
                 LAMBDA f, D, i : IF Len(f) = D THEN f[i]
                                  ELSE IF Len(f) >= 1 THEN f[1] ELSE 1)]_vars

\* a layer of two dimensions has been scaled by a list of one factor while
\* another scaling has an empty factor list
C19_Witness ==
    /\ last.op \in {"create_transformation", "update_transformation"}
    /\ last.outcome = "ok"
    /\ \E t, u \in 1..Len(transformations) :
        /\ transformations[t].parameters = [scale_factors |-> <<3>>]
        /\ transformations[t].source_layer_id \in DOMAIN layers
        /\ layers[transformations[t].source_layer_id].dimensionality = 2
        /\ transformations[t].target_layer_id \in DOMAIN layers
        /\ transformations[u].parameters = [scale_factors |-> <<>>]
        /\ transformations[u].target_layer_id \in DOMAIN layers

\* C20: of the get_projection_coordinates calls that threads make on one
\* projection, at most one runs the computation, and the calls that have
\* returned have returned the same coordinate list.
C20_ComputedOnceByReaders ==
    \A r, q \in 1..Readers :
        (r # q /\ readers[r].projection_id = readers[q].projection_id) =>
            /\ ~(readers[r].computed /\ readers[q].computed)
            /\ (readers[r].pc = "done" /\ readers[q].pc = "done") =>
                    readers[r].returned = readers[q].returned

-----------------------------------------------------------------------------
(* C21 - C30 *)

\* every reference of the graph leads to a layer of the store: the source and
\* the target of every transformation, and the layer of every projection
GraphWhole ==
    /\ \A t \in 1..Len(transformations) :
        /\ transformations[t].source_layer_id \in DOMAIN layers
        /\ transformations[t].target_layer_id \in DOMAIN layers
    /\ \A p \in DOMAIN projections : projections[p].layer_id \in DOMAIN layers

\* C21: an operation that runs while an update_transformation call is in
\* progress finds a graph in which no transformation and no projection refers
\* to a deleted layer: none has been rewritten while another is stale.
C21_PropagationAtomic ==
    [][(writer.pc # "idle" /\ writer' = writer) => GraphWhole]_vars

\* the transformations whose reapplication failed during the propagation of
\* the step: reapplied after the edited one and left without a stored target
FailedDownstream ==
    {t \in Range(last'.applied) \ {last'.id} :
        transformations'[t].target_layer_id \notin DOMAIN layers'}

\* C22: when the reapplication of a downstream transformation fails during
\* propagation, no transformation below it is reapplied, and every other
\* transformation that had the same source layer has been reapplied, has the
\* replacement layer as its source and has a new, stored target layer.
C22_BranchHalts ==
    [][Edited =>
        \A f \in FailedDownstream :
            /\ \A t \in DownstreamClosure(transformations, f) \ {f} :
                    t \notin Range(last'.applied)
            /\ \A t \in (1..Len(transformations)) \ {f} :
                    transformations[t].source_layer_id
                            = transformations[f].source_layer_id =>
                        /\ t \in Range(last'.applied)
                        /\ transformations'[t].source_layer_id
                                = transformations'[f].source_layer_id
                        /\ transformations'[t].target_layer_id
                                # transformations[t].target_layer_id
                        /\ transformations'[t].target_layer_id \in DOMAIN layers']_vars

\* C23: an update_transformation call that has been entered returns.
C23_Terminates == (writer.pc # "idle") ~> (writer.pc = "idle")

\* an update_transformation call has returned after reapplying a downstream
\* transformation
C23_Witness ==
    /\ writer.pc = "idle"
    /\ last.op = "update_transformation"
    /\ last.outcome = "ok"
    /\ Len(last.applied) >= 2

\* C27: a call of _update_layer_reference(old, new) gives every projection
\* that refers to old the reference new and removes its cache entry, changes
\* nothing else of it, and leaves every other projection as it was, with its
\* layer reference, parameters, seed and cache entry.
C27_Rebind ==
    [][(writer.pc = "enter" /\ writer'.pc = "loop") =>
        /\ DOMAIN projections' = DOMAIN projections
        /\ \A p \in DOMAIN projections :
            IF projections[p].layer_id = writer.call.old
            THEN /\ projections'[p] =
                        [projections[p] EXCEPT !.layer_id = writer.call.new]
                 /\ p \notin DOMAIN projection_results'
            ELSE SameView(p)]_vars

\* a projection with a cache entry has just been rebound, next to a projection
\* of another layer that has its cache entry
C27_Witness ==
    /\ last.op = "update_layer_reference"
    /\ writer.pc = "loop"
    /\ \E p, q \in DOMAIN projections :
        /\ projections[p].layer_id = Val(last.returned)
        /\ p \notin DOMAIN projection_results
        /\ projections[q].layer_id # Val(last.returned)
        /\ q \in DOMAIN projection_results

\* the difference of two rows of coordinates
Displacement(to, from) == [i \in 1..Len(to) |-> FSub(to[i], from[i])]

\* the k-th unit vector of the plane
UnitVector(k) == [i \in 1..2 |-> Whole(IF i = k THEN 1 ELSE 0)]

\* C24: in a computed 2D custom-axes projection with two independent axes,
\* two points of the layer whose raw difference is the first axis have images
\* that differ by (1,0), and two whose raw difference is the second axis have
\* images that differ by (0,1).
C24_UnitDisplacements ==
    \A p \in DOMAIN projection_results :
        LET axes == Get(projections[p].parameters, "axes", <<>>)
            layer_points == points[projections[p].layer_id]
            image == projection_results[p]
        IN (/\ projections[p].type = "custom_axes"
            /\ projections[p].dimensions = 2
            /\ Len(axes) = 2
            /\ Len(RawVectors(axes)) = 2) =>
                \A k \in 1..2 : \A a, b \in DOMAIN layer_points :
                    Direction(layer_points, a, b).vector = axes[k].vector =>
                        Displacement(image[b].coordinates, image[a].coordinates)
                            = UnitVector(k)

\* C28: a custom-axes transformation in the 2d mode and a computed 2D
\* custom-axes projection of the transformation's source layer that have the
\* same one or two axis directions give every point the same two coordinates:
\* the vector in the target layer is the projected coordinate pair.
C28_SameFunction ==
    \A t \in 1..Len(transformations), p \in DOMAIN projection_results :
        LET transformation == transformations[t]
            axes == Get(projections[p].parameters, "axes", <<>>)
        IN (/\ transformation.type = "custom_axes"
            /\ Get(transformation.parameters, "output_mode", "2d") = "2d"
            /\ transformation.target_layer_id \in DOMAIN layers
            /\ projections[p].type = "custom_axes"
            /\ projections[p].dimensions = 2
            /\ projections[p].layer_id = transformation.source_layer_id
            /\ Get(transformation.parameters, "axes", <<>>) = axes
            /\ Len(RawVectors(axes)) \in {1, 2}) =>
                \A point_id \in DOMAIN points[transformation.source_layer_id] :
                    points[transformation.target_layer_id][point_id].vector
                        = projection_results[p][point_id].coordinates

\* v @ M^T: the row vector v times the transpose of the matrix M (a list of rows)
TimesTransposed(v, M) ==
    [i \in 1..Len(M) |-> Dot(AsFloats(v), AsFloats(M[i])).n]

\* the image of v under a transformation of type affine or linear: the matrix
\* step if a matrix is given, then, for affine, the translation if one is given
AffineImage(v, type, parameters) ==
    LET multiplied == IF "matrix" \in DOMAIN parameters
                      THEN TimesTransposed(v, parameters.matrix) ELSE v
    IN IF type = "affine" /\ "translation" \in DOMAIN parameters
       THEN [i \in 1..Len(multiplied) |->
                multiplied[i] + parameters.translation[i]]
       ELSE multiplied

\* C29: the target layer of an affine transformation holds v M^T + t for every
\* source vector v, and that of a linear transformation v M^T; a step whose
\* parameter is absent is skipped.
C29_AffineLinear ==
    \A t \in 1..Len(transformations) :
        LET transformation == transformations[t]
            source == transformation.source_layer_id
            target == transformation.target_layer_id
        IN (/\ transformation.type \in {"affine", "linear"}
            /\ source \in DOMAIN layers
            /\ target \in DOMAIN layers) =>
                \A point_id \in DOMAIN points[source] :
                    points[target][point_id].vector
                        = AffineImage(points[source][point_id].vector,
                                      transformation.type,
                                      transformation.parameters)

\* C30: a direct projection is computed for every integer dim_x, dim_y and
\* dim_z, no call that computes it raises, every index with which a column is
\* read lies in 0..D-1, and each coordinate is the raw value of the point in
\* that column.
C30_DirectIndices ==
    /\ last.op \in {"create_projection", "get_projection_coordinates"} =>
            last.outcome # "raised"
    /\ \A p \in DOMAIN projection_results :
        projections[p].type = "direct" =>
            LET layer_id == projections[p].layer_id
                D == layers[layer_id].dimensionality
                used == direct_indices(D, projections[p].dimensions,
                                       projections[p].parameters)
            IN \A i \in 1..Len(used) :
                /\ used[i] \in 0..(D - 1)
                /\ \A point_id \in DOMAIN points[layer_id] :
                        projection_results[p][point_id].coordinates[i]
                            = points[layer_id][point_id].vector[used[i] + 1]

\* a layer that holds transformed data or that a transformation reads
DerivedOrSource(layer_id) ==
    \/ layers[layer_id].is_derived
    \/ \E t \in 1..Len(transformations) :
            transformations[t].source_layer_id = layer_id

\* C26: a step never changes the points or the dimensionality of a layer that
\* is derived or is the source of a transformation: after the step the layer
\* is gone or holds the same points, with the same vectors, in the same
\* number of dimensions.
C26_LayerImmutable ==
    [][\A layer_id \in DOMAIN layers :
        (DerivedOrSource(layer_id) /\ layer_id \in DOMAIN layers') =>
            /\ points'[layer_id] = points[layer_id]
            /\ layers'[layer_id].dimensionality
                    = layers[layer_id].dimensionality]_vars

\* C25: loading a file that holds the graph as it is now leaves the same
\* graph: the call returns, the layers, transformations and projections have
\* the ids, names, references and parameter maps they had and are registered
\* in the store and the engines, and every layer holds the points it had
\* under their ids, with their vectors.
C25_RoundTrip ==
    [][(/\ last'.op = "load_saved"
        /\ saved # None
        /\ listed = {}
        /\ save_current(State) = Val(saved)) =>
            /\ last'.outcome = "ok"
            /\ transformations' = transformations
            /\ projections' = projections
            /\ DOMAIN layers' = DOMAIN layers
            /\ \A layer_id \in DOMAIN layers :
                /\ layers'[layer_id] = layers[layer_id]
                /\ layer_id \notin listed'
                /\ DOMAIN points'[layer_id] = DOMAIN points[layer_id]
                /\ \A point_id \in DOMAIN points[layer_id] :
                        points'[layer_id][point_id].vector
                            = points[layer_id][point_id].vector]_vars

\* C31: in every reachable state the source layer of each registered
\* transformation is a layer of the store, also below a downstream
\* transformation whose reapplication failed during propagation.
C31_SourceExists ==
    \A t \in 1..Len(transformations) :
        transformations[t].source_layer_id \in DOMAIN layers

\* C32: in every reachable state the layer of each projection is a layer of
\* the store, also after an update_transformation or a propagation deleted
\* a layer and the reapplication that makes its replacement failed.
C32_ViewedLayerExists ==
    \A p \in DOMAIN projections :
        projections[p].layer_id \in DOMAIN layers

\* C33: in every reachable state each projection id that has a cache entry
\* is the id of a registered projection.
C33_CacheOfRegistered ==
    DOMAIN projection_results \subseteq DOMAIN projections

\* C34: whenever a projection has a cache entry, the entry holds one
\* ProjectedPoint for each point its layer stores now, under the same ids,
\* also after points were added to the layer.
C34_CacheCoversLayer ==
    \A p \in DOMAIN projection_results :
        (p \in DOMAIN projections /\ projections[p].layer_id \in DOMAIN points) =>
            DOMAIN projection_results[p] = DOMAIN points[projections[p].layer_id]

\* C35: every ProjectedPoint a projection holds has as many coordinates as
\* the projection has dimensions, whatever its type.
C35_CoordinateLength ==
    \A p \in (DOMAIN projection_results) \cap (DOMAIN projections) :
        \A point_id \in DOMAIN projection_results[p] :
            Len(projection_results[p][point_id].coordinates)
                = projections[p].dimensions

\* C36: in every reachable state each point stored in a layer has a vector
\* with as many elements as the layer has dimensions, in root layers and in
\* derived layers.
C36_VectorLength ==
    \A layer_id \in DOMAIN layers :
        \A point_id \in DOMAIN points[layer_id] :
            Len(points[layer_id][point_id].vector)
                = layers[layer_id].dimensionality

\* C37: the coordinates computed for a projection after an explicit cache
\* invalidation equal the coordinates it had before, its type, seed,
\* parameters and layer being the same, for every type.
C37_Deterministic ==
    [][\A p \in DOMAIN projection_results :
        (/\ last'.op = "invalidate_cache"
         /\ p \in DOMAIN projections'
         /\ p \notin DOMAIN projection_results'
         /\ projections'[p] = projections[p]
         /\ layers' = layers
         /\ points' = points) =>
            get_projection_coordinates(State', p).returned
                = Some(projection_results[p])]_vars

\* C38: lazy compute-on-read and invalidation cannot race: when the cache of a
\* projection is invalidated (update_projection with parameters, a rebind by
\* propagation, invalidate_cache) while a computation of that projection that
\* started earlier is still in progress, the result of that computation is never
\* stored as the projection's cache entry afterwards.
C38_NoStoreAfterInvalidation ==
    [][\A r \in 1..Readers :
        (/\ readers[r].pc = "store"
         /\ readers[r].invalidated
         /\ readers'[r].pc = "return") =>
            projection_results' = projection_results]_vars

\* C39: an update_transformation call that fails, returning the absent result
\* because the source layer is missing or the reapplication produces no
\* layer, leaves the graph as it was before the call: the name, the type, the
\* parameters and the target reference of the transformation are unchanged and
\* its old target layer still exists.
C39_FailedUpdateKeepsGraph ==
    [][(/\ last'.op = "update_transformation"
        /\ last'.outcome = "none") =>
            /\ transformations' = transformations
            /\ layers' = layers
            /\ points' = points]_vars

====
